---- MODULE Spec2Model ----
(***************************************************************************)
(* iMouseGuard rules engine (bin/rules_engine.py): the state store         *)
(* (load_state / save_state), the Engine (note, should_alert, mark_alert)  *)
(* and its two loops (ws_loop, check_loop).                                *)
(*                                                                         *)
(* Time is counted in whole minutes.  time.time() is the variable now;     *)
(* minutes_since(ts) is now - ts.  A Python dict is a TLA+ function whose  *)
(* DOMAIN is the set of its keys.                                          *)
(***************************************************************************)
EXTENDS Integers, Sequences, FiniteSets, TLC

(***************************************************************************)
(* Bounds of the model.                                                    *)
(***************************************************************************)
\* time.time() when the engine starts.  Real clocks are far past any
\* suppression window, so that minutes_since(0) > suppress_minutes: StartTime
\* is more than every value of SupValues.
StartTime == 2
\* the clock runs for Horizon minutes after the engine starts
Horizon == 2
\* save_state raises at most MaxFailRun times in a row
MaxFailRun == 1

MaxTime == StartTime + Horizon

\* the values of suppress_minutes the configuration may set
SupValues == {0, 1}

(***************************************************************************)
(* Configuration (rules.yaml): one monitor with two zones, in file order.  *)
(* Zone Litter alerts after more than one idle minute, zone Water after    *)
(* any whole idle minute.                                                  *)
(***************************************************************************)
Pairs ==
    << [mid |-> "12", zname |-> "Litter", keyword |-> "litter",
        max_inactive_minutes |-> 1],
       [mid |-> "12", zname |-> "Water", keyword |-> "water",
        max_inactive_minutes |-> 0] >>

\* key = f"{mid}:{zname}"
KeyOf(mid, zname) == mid \o ":" \o zname

PairKey(i) == KeyOf(Pairs[i].mid, Pairs[i].zname)

\* every key a state dict of the model may hold, in a fixed order
KeySeq == << "12:Litter", "12:Water" >>
Keys == {KeySeq[i] : i \in 1..Len(KeySeq)}

(***************************************************************************)
(* Python dicts.                                                           *)
(***************************************************************************)
EmptyDict == [k \in {} |-> 0]

\* d.get(k, default)
Get(d, k, default) == IF k \in DOMAIN d THEN d[k] ELSE default

\* d[k] = v
Put(d, k, v) == [x \in (DOMAIN d) \cup {k} |-> IF x = k THEN v ELSE d[x]]

\* {"last_seen": {}, "last_alert": {}}
EmptyState == [last_seen |-> EmptyDict, last_alert |-> EmptyDict]

(***************************************************************************)
(* JSON text.  A file's text is a sequence of tokens; every token is a     *)
(* record [t, v]: punctuation, a string literal, or one decimal digit.     *)
(***************************************************************************)
P(c) == [t |-> "punct", v |-> c]
S(s) == [t |-> "str", v |-> s]
D(c) == [t |-> "digit", v |-> c]

DigitChars == << "0", "1", "2", "3", "4", "5", "6", "7", "8", "9" >>

DigitVal(c) == CHOOSE i \in 0..9 : DigitChars[i + 1] = c

\* the decimal text of a number, most significant digit first
RECURSIVE FormatNum(_)
FormatNum(n) ==
    IF n < 10 THEN << D(DigitChars[n + 1]) >>
    ELSE FormatNum(n \div 10) \o << D(DigitChars[(n % 10) + 1]) >>

\* the members of a dict of numbers: "k": n, "k": n, ...
RECURSIVE DumpNumMembers(_, _)
DumpNumMembers(d, ks) ==
    IF ks = << >> THEN << >>
    ELSE LET k == Head(ks)
             rest == DumpNumMembers(d, Tail(ks))
         IN IF k \notin DOMAIN d THEN rest
            ELSE << S(k), P(":") >> \o FormatNum(d[k]) \o
                 (IF rest = << >> THEN << >> ELSE << P(",") >> \o rest)

DumpNumDict(d) == << P("{") >> \o DumpNumMembers(d, KeySeq) \o << P("}") >>

NameSeq == << "last_seen", "last_alert" >>
Names == {"last_seen", "last_alert"}

RECURSIVE DumpMembers(_, _)
DumpMembers(st, ns) ==
    IF ns = << >> THEN << >>
    ELSE LET n == Head(ns)
             rest == DumpMembers(st, Tail(ns))
         IN IF n \notin DOMAIN st THEN rest
            ELSE << S(n), P(":") >> \o DumpNumDict(st[n]) \o
                 (IF rest = << >> THEN << >> ELSE << P(",") >> \o rest)

\* json.dump(state, f): the whole text of a state document
JsonDump(st) == << P("{") >> \o DumpMembers(st, NameSeq) \o << P("}") >>

(***************************************************************************)
(* json.load: a recursive-descent parse of the token text.  Every result   *)
(* is [ok, val, rest]; ok = FALSE is the JSONDecodeError.                  *)
(***************************************************************************)
ParseFail == [ok |-> FALSE, val |-> EmptyDict, rest |-> << >>]

\* the maximal run of digits at the head of toks, as a number
RECURSIVE ParseDigits(_, _)
ParseDigits(toks, acc) ==
    IF toks # << >> /\ Head(toks).t = "digit"
    THEN ParseDigits(Tail(toks), acc * 10 + DigitVal(Head(toks).v))
    ELSE [ok |-> TRUE, val |-> acc, rest |-> toks]

\* "k": n {, "k": n} "}" : the members of a dict of numbers
RECURSIVE ParseNumMembers(_, _)
ParseNumMembers(toks, acc) ==
    IF \/ Len(toks) < 3
       \/ toks[1].t # "str"
       \/ toks[2] # P(":")
       \/ toks[3].t # "digit"
    THEN ParseFail
    ELSE LET n == ParseDigits(SubSeq(toks, 3, Len(toks)), 0)
             acc2 == Put(acc, toks[1].v, n.val)
         IN IF n.rest = << >> THEN ParseFail
            ELSE IF Head(n.rest) = P("}")
                 THEN [ok |-> TRUE, val |-> acc2, rest |-> Tail(n.rest)]
            ELSE IF Head(n.rest) = P(",")
                 THEN ParseNumMembers(Tail(n.rest), acc2)
            ELSE ParseFail

ParseNumDict(toks) ==
    IF toks = << >> \/ Head(toks) # P("{") THEN ParseFail
    ELSE IF Len(toks) >= 2 /\ toks[2] = P("}")
         THEN [ok |-> TRUE, val |-> EmptyDict, rest |-> SubSeq(toks, 3, Len(toks))]
    ELSE ParseNumMembers(Tail(toks), EmptyDict)

\* "name": {...} {, "name": {...}} "}" : the members of the document
RECURSIVE ParseMembers(_, _)
ParseMembers(toks, acc) ==
    IF \/ Len(toks) < 3
       \/ toks[1].t # "str"
       \/ toks[2] # P(":")
    THEN ParseFail
    ELSE LET d == ParseNumDict(SubSeq(toks, 3, Len(toks)))
             acc2 == Put(acc, toks[1].v, d.val)
         IN IF ~d.ok \/ d.rest = << >> THEN ParseFail
            ELSE IF Head(d.rest) = P("}")
                 THEN [ok |-> TRUE, val |-> acc2, rest |-> Tail(d.rest)]
            ELSE IF Head(d.rest) = P(",")
                 THEN ParseMembers(Tail(d.rest), acc2)
            ELSE ParseFail

\* json.load(f): the document, or a decode error on anything else
JsonLoad(toks) ==
    LET r == IF toks = << >> \/ Head(toks) # P("{") THEN ParseFail
             ELSE IF Len(toks) >= 2 /\ toks[2] = P("}")
                  THEN [ok |-> TRUE, val |-> EmptyDict,
                        rest |-> SubSeq(toks, 3, Len(toks))]
             ELSE ParseMembers(Tail(toks), EmptyDict)
    IN IF r.ok /\ r.rest = << >> THEN r ELSE ParseFail

(***************************************************************************)
(* Files.                                                                  *)
(***************************************************************************)
NoFile == [exists |-> FALSE, text |-> << >>]
FileOf(text) == [exists |-> TRUE, text |-> text]

\* load_state(): the parsed file; the default state on any exception
\* (open() of a missing file, a decode error)
load_state(f) ==
    IF ~f.exists THEN EmptyState
    ELSE LET r == JsonLoad(f.text)
         IN IF r.ok THEN r.val ELSE EmptyState

\* a dump that leaves out the last_alert map
SaveText_SeenOnly(st) == JsonDump([last_seen |-> st.last_seen])

\* json.dump(state, f): the text save_state writes to the temporary file
SaveText(st) == JsonDump(st)

\* save_state(state), run to its end: the file the replace leaves
save_state(st) == FileOf(SaveText(st))

(***************************************************************************)
(* Text of a cause: a sequence of one-character strings.                   *)
(***************************************************************************)
UpperToLower ==
    [c \in {"L", "W", "Z", "O", "M"} |->
        CASE c = "L" -> "l" [] c = "W" -> "w" [] c = "Z" -> "z" [] c = "O" -> "o"
          [] c = "M" -> "m"]

LowerChar(c) == IF c \in DOMAIN UpperToLower THEN UpperToLower[c] ELSE c

\* s.lower()
Lower(s) == [i \in 1..Len(s) |-> LowerChar(s[i])]

\* s.strip()
RECURSIVE LStrip(_)
LStrip(s) == IF s # << >> /\ Head(s) = " " THEN LStrip(Tail(s)) ELSE s

RECURSIVE RStrip(_)
RStrip(s) ==
    IF s # << >> /\ s[Len(s)] = " " THEN RStrip(SubSeq(s, 1, Len(s) - 1)) ELSE s

Strip(s) == RStrip(LStrip(s))

\* the index of the first c in s, 0 if there is none
FirstIndex(s, c) ==
    IF \E i \in 1..Len(s) : s[i] = c
    THEN CHOOSE i \in 1..Len(s) : s[i] = c /\ \A j \in 1..(i - 1) : s[j] # c
    ELSE 0

\* kw in s
Contains(s, kw) ==
    \E i \in 0..(Len(s) - Len(kw)) : SubSeq(s, i + 1, i + Len(kw)) = kw

\* the zone hint taken as the whole of the second segment
parse_zone_from_cause_Whole(cause) ==
    IF cause = << >> THEN << >>
    ELSE LET c == FirstIndex(cause, ":")
         IN IF c = 0 THEN Strip(cause)
            ELSE Strip(SubSeq(cause, c + 1, Len(cause)))

\* parse_zone_from_cause(cause)
parse_zone_from_cause(cause) ==
    IF cause = << >> THEN << >>
    ELSE LET c == FirstIndex(cause, ":")
         IN IF c = 0 THEN Strip(cause)
            ELSE LET second == Strip(SubSeq(cause, c + 1, Len(cause)))
                     k == FirstIndex(second, ",")
                 IN IF k = 0 THEN Strip(second)
                    ELSE Strip(SubSeq(second, 1, k - 1))

\* the keyword of a configured zone, as text
KeywordText(kw) ==
    CASE kw = "litter" -> << "l", "i", "t", "t", "e", "r" >>
      [] kw = "water" -> << "w", "a", "t", "e", "r" >>
      [] OTHER -> << >>

\* the events the stream delivers: [mid, cause]
Causes ==
    { << "L", ":", " ", "L", "i", "t", "t", "e", "r", " ", "Z", ",", " ", "o" >>,
      << "w", "a", "t", "e", "r" >>,
      << "l", "i", "t", "t", "e", "r", " ", "w", "a", "t", "e", "r" >>,
      << "O", ":", " ", "m", ",", "l", "i", "t", "t", "e", "r" >> }

Events == [mid : {"12", "99"}, cause : Causes]

\* the inner for loop stopping at the first zone that matches
MatchedZones_First(e) ==
    LET hint == Lower(parse_zone_from_cause(e.cause))
        hit(i) == /\ Pairs[i].mid = e.mid
                  /\ KeywordText(Pairs[i].keyword) # << >>
                  /\ Contains(hint, Lower(KeywordText(Pairs[i].keyword)))
    IN IF \E i \in 1..Len(Pairs) : hit(i)
       THEN << Pairs[CHOOSE i \in 1..Len(Pairs) :
                        hit(i) /\ \A j \in 1..(i - 1) : ~hit(j)].zname >>
       ELSE << >>

\* the zones of monitor mid, in configuration order, whose non-empty keyword
\* is in the lowered zone hint (ws_loop's inner for loop)
MatchedZones(e) ==
    LET hint == Lower(parse_zone_from_cause(e.cause))
        hit(i) == /\ Pairs[i].mid = e.mid
                  /\ KeywordText(Pairs[i].keyword) # << >>
                  /\ Contains(hint, Lower(KeywordText(Pairs[i].keyword)))
        RECURSIVE from(_)
        from(i) == IF i > Len(Pairs) THEN << >>
                   ELSE (IF hit(i) THEN << Pairs[i].zname >> ELSE << >>) \o from(i + 1)
    IN from(1)

(***************************************************************************)
(* The daemon: Engine state, the state file, and the two threads.          *)
(***************************************************************************)
VARIABLES
    now,        \* time.time(), in minutes
    sup,        \* cfg["suppress_minutes"]
    state,      \* Engine.state
    file,       \* STATE_FILE
    tmp,        \* STATE_FILE + ".tmp"
    lock,       \* Engine.lock: "free", or the thread holding it
    wpc,        \* ws_loop: "recv", "note", "note_save"
    wQueue,     \* ws_loop: zones of the current event still to be noted
    wMid,       \* ws_loop: the current event's monitor id
    cpc,        \* check_loop: "pair", "decide", "send_tg", "send_wa", "mark",
                \*             "mark_save", "sleep"
    cIdx,       \* check_loop: index in Pairs of the pair being evaluated
    cLast,      \* check_loop: the local last
    cSent,      \* history: the outcome of send_telegram, then of both sends
    cSleep,     \* check_loop: the sleep in progress, 60 or 5 seconds
    lastMark,   \* history: per key, the time mark_alert last recorded (0: never)
    passDisp,   \* history: per key, dispatches made in the current pass
    dirtyRead,  \* history: check_loop's last read of last_seen[key] was of a
                \*          value note had set and not yet saved
    failRun,    \* environment: how many save_state calls in a row have raised
                \*              (0: the last save_state succeeded)
    spc,        \* a process using the state store alone: "off" (none), "idle",
                \*   in save_state at "open", "write", "replace", "saved",
                \*   "crashed", or "loaded" after load_state
    sNew,       \* save_state: the state being saved
    sOld,       \* history: what load_state returned before the save began
    sPos,       \* save_state: how many tokens json.dump has written
    sLoaded,    \* what load_state returned
    retMark,    \* history, kept where the daemon can be killed: per key, the
                \*          time of the last mark_alert call that returned (0: none)
    killMark,   \* history: retMark as it was when the daemon was last killed
    ipc,        \* ws_loop with its connection: "off" (not modelled), "connect",
                \*   "auth", "recv", "event", "zones", "except"
    backoff,    \* ws_loop: the local backoff, in seconds
    slept,      \* history: the delay of the last time.sleep(backoff) (0: none)
    connOk,     \* history: create_connection has returned since the last sleep
    authSent,   \* history: the auth frame was sent on the current connection
    iErr,       \* history: what raised the exception being handled
    iFrame,     \* ws_loop: msg, the frame last read
    iEvents,    \* ws_loop: the events parse_events returned, from the current one
    iZones,     \* ws_loop: matched zones of the current event still to be noted
    iHint,      \* ws_loop: zone_hint of the current event
    iNoted,     \* history: the keys noted for the current event
    fpc,        \* forwarder main (zmes_ws_to_telegram.py): "off" (not
                \*   modelled), "connect", "auth", "filter", "recv", "event",
                \*   "except"
    fAuthSent,  \* history: the auth frame was sent on the current connection
    fFrame,     \* forwarder: msg, the frame last read
    fEvents,    \* forwarder: the events parse_events returned, from the
                \*            current one
    seen_eids,  \* forwarder: the event ids remembered
    fForwarded, \* history: the event ids handed to the hook
    fTwice,     \* history: the event ids handed to the hook more than once
    mpc,        \* main of rules_engine.py, one process after another: "off"
                \*   (not modelled), "idle" (none yet), "load", "dispatch",
                \*   "os_pair", "os_decide", "os_tg", "os_wa", "os_mark"
                \*   (one_shot_check), "daemon", "exit"
    argv,       \* sys.argv of the process
    conf,       \* the configuration source rules.yaml
    exitCode,   \* the exit code of the process: -1 while it runs, 1 for an
                \*   uncaught exception
    loopsStarted, \* history: the process started check_loop and ws_loop
    oIdx,       \* one_shot_check: index in CfgPairs of the pair evaluated
    oLast,      \* one_shot_check: last
    oSent,      \* history: the sends of the current alert that have returned
    oEval,      \* history: the pairs the process has evaluated, in order
    hpc,        \* the alert dispatch: "off" (not modelled), "idle", "tg",
                \*   "slack", "wa" (send_whatsapp entered), "wa_send" (its
                \*   loop over the recipients), "wa_end", "done"
    hProg,      \* "hook" (imouse_hook_alert.py) or "engine" (the senders of
                \*   rules_engine.py)
    hEnv,       \* the environment: credentials and switches of the channels
    hAttempt,   \* attempt of the retry loop
    hBackoff,   \* backoff, in tenths of a second
    hRcpt,      \* send_whatsapp: index of the recipient
    hSentAny,   \* send_whatsapp: sent_any
    hWaits,     \* history: the sleeps of the current channel send
    hTries,     \* history: network attempts per channel for the current alert
    hResult,    \* history: how each channel send of the current alert ended
    waFile,     \* whatsapp_last_sent.txt
    savers,     \* two processes inside save_state: for each its position
                \*   ("off", "open", "write", "replace", "saved", "failed"),
                \*   the state it saves, its file offset, and where the
                \*   file it has open is now ("none", "tmp", "file", "gone")
    lastReplace, \* history: the process whose os.replace happened last, or 0
    passA,      \* one iteration of check_loop run on its own: the engine's
                \*   state, the state file, the index of the pair, the
                \*   alerts sent, and where the pass stands
    passB,      \* one_shot_check run on its own, likewise
    hooks,      \* two hook processes inside send_whatsapp: for each its
                \*   position ("off", "idle", "check", "send", "mark", "done")
    waSends     \* history: the times of the WhatsApp sends that delivered

vars == << now, sup, state, file, tmp, lock, wpc, wQueue, wMid, cpc, cIdx,
           cLast, cSent, cSleep, lastMark, passDisp, dirtyRead, failRun,
           spc, sNew, sOld, sPos, sLoaded, retMark, killMark,
           fpc, fAuthSent, fFrame, fEvents, seen_eids, fForwarded, fTwice,
           mpc, argv, conf, exitCode, loopsStarted, oIdx, oLast, oSent,
           oEval, hpc, hProg, hEnv, hAttempt, hBackoff, hRcpt, hSentAny, hWaits,
           hTries, hResult, waFile, savers, lastReplace, passA, passB,
           hooks, waSends,
           ipc, backoff, slept, connOk, authSent, iErr, iFrame, iEvents,
           iZones, iHint, iNoted >>

storeVars == << spc, sNew, sOld, sPos, sLoaded >>
wsVars == << wpc, wQueue, wMid >>
chkVars == << cpc, cIdx, cLast, cSent, cSleep, passDisp >>
histVars == << lastMark, dirtyRead, failRun >>
bootVars == << retMark, killMark >>
ingVars == << ipc, backoff, slept, connOk, authSent, iErr, iFrame, iEvents,
             iZones, iHint, iNoted >>

fwdVars == << fpc, fAuthSent, fFrame, fEvents, seen_eids, fForwarded, fTwice >>
cliVars == << mpc, argv, conf, exitCode, loopsStarted, oIdx, oLast, oSent,
             oEval >>
hookVars == << hpc, hProg, hEnv, hAttempt, hBackoff, hRcpt, hSentAny, hWaits,
              hTries, hResult, waFile >>
duoVars == << savers, lastReplace, passA, passB, hooks, waSends >>
toolVars == << cliVars, hookVars, duoVars >>

\* backoff = 2
BackoffBase == 2
\* backoff = min(backoff*2, 30)
BackoffCap == 30

\* no frame read yet on this connection
NoFrame == [kind |-> "none"]

\* the ingestion loop before its first line, or not part of the specification
IngestIdle(pc) ==
    /\ ipc = pc
    /\ backoff = BackoffBase
    /\ slept = 0
    /\ connOk = FALSE
    /\ authSent = FALSE
    /\ iErr = ""
    /\ iFrame = NoFrame
    /\ iEvents = << >>
    /\ iZones = << >>
    /\ iHint = << >>
    /\ iNoted = {}

\* the forwarder before its first line, or not part of the specification
ForwarderIdle(pc) ==
    /\ fpc = pc
    /\ fAuthSent = FALSE
    /\ fFrame = NoFrame
    /\ fEvents = << >>
    /\ seen_eids = {}
    /\ fForwarded = {}
    /\ fTwice = {}

\* rules.yaml: missing; with the two zones of Pairs; with a negative
\* max_inactive_minutes; with a negative suppress_minutes; with an empty
\* monitors map
MissingConf == [exists |-> FALSE, monitors |-> << >>, suppress_minutes |-> 1]
ValidConf == [exists |-> TRUE, monitors |-> Pairs, suppress_minutes |-> 1]
NegIdleConf ==
    [exists |-> TRUE,
     monitors |-> [i \in 1..Len(Pairs) |->
                      [Pairs[i] EXCEPT !.max_inactive_minutes = -1]],
     suppress_minutes |-> 1]
NegSupConf == [exists |-> TRUE, monitors |-> Pairs, suppress_minutes |-> -1]
EmptyConf == [exists |-> TRUE, monitors |-> << >>, suppress_minutes |-> 1]
Configs == {MissingConf, ValidConf, NegIdleConf, NegSupConf, EmptyConf}

\* an environment with every channel configured, one WhatsApp recipient
FullEnv == [tgCreds |-> TRUE, slack |-> "ok", waEnabled |-> TRUE,
            waCreds |-> TRUE, recipients |-> 1]

NoTries == [ch \in {"tg", "slack", "wa"} |-> 0]
NoResults == [ch \in {"tg", "slack", "wa"} |-> "none"]
NoStamp == [exists |-> FALSE, last |-> 0]

\* no process of the command line, or main not part of the specification
CliIdle(pc) ==
    /\ mpc = pc
    /\ argv = << >>
    /\ exitCode = -1
    /\ loopsStarted = FALSE
    /\ oIdx = 1
    /\ oLast = 0
    /\ oSent = << >>
    /\ oEval = << >>

\* no alert being dispatched, or the dispatch not part of the specification
HookIdle(pc) ==
    /\ hpc = pc
    /\ hAttempt = 0
    /\ hBackoff = 0
    /\ hRcpt = 1
    /\ hSentAny = FALSE
    /\ hWaits = << >>
    /\ hTries = NoTries
    /\ hResult = NoResults

\* the processes that may run side by side
Procs == {1, 2}

\* a pass that is not run
NoPass == [st |-> EmptyState, file |-> [exists |-> FALSE, text |-> << >>],
           idx |-> 1, sent |-> << >>, pc |-> "off"]

\* no processes side by side, no pass run on its own
SaversOff ==
    /\ savers = [p \in Procs |-> [pc |-> "off", st |-> EmptyState, pos |-> 0,
                                  fd |-> "none"]]
    /\ lastReplace = 0
    /\ passA = NoPass /\ passB = NoPass
    /\ hooks = [p \in Procs |-> "off"]
    /\ waSends = {}

\* the variables of main and of the dispatch held where no process runs
ToolsOff ==
    /\ CliIdle("off") /\ conf = ValidConf
    /\ HookIdle("off") /\ hProg = "hook" /\ hEnv = FullEnv /\ waFile = NoStamp
    /\ SaversOff

NoSends == "none"

\* the two sends of one alert, summed up: did any channel deliver it
Delivery(tg, wa) == IF tg = "ok" \/ wa = "ok" THEN "delivered" ELSE "undelivered"

\* the outcomes of one channel send: delivered; failed (HTTP status, exception,
\* non-zero exit, timeout); skipped (credentials missing, channel not enabled)
Outcomes == {"ok", "failed", "skipped"}

\* the state file found when the engine starts: none, or well-formed JSON
\* holding neither map
InitFiles == {NoFile, FileOf(JsonDump(EmptyDict))}

Init ==
    /\ now = StartTime
    /\ sup \in SupValues
    /\ file \in InitFiles
    /\ tmp = NoFile
    /\ state = load_state(file)
    /\ lock = "free"
    /\ wpc = "recv" /\ wQueue = << >> /\ wMid = ""
    /\ cpc = "pair" /\ cIdx = 1 /\ cLast = 0 /\ cSent = NoSends
    /\ cSleep = 0
    /\ lastMark = [k \in Keys |-> 0]
    /\ passDisp = [k \in Keys |-> 0]
    /\ dirtyRead = FALSE
    /\ failRun = 0
    /\ spc = "off" /\ sNew = EmptyState /\ sOld = EmptyState
    /\ sPos = 0 /\ sLoaded = EmptyState
    /\ retMark = [k \in Keys |-> 0]
    /\ killMark = [k \in Keys |-> 0]
    /\ IngestIdle("off")
    /\ ForwarderIdle("off")
    /\ ToolsOff

\* the clock advances
Tick ==
    /\ now < MaxTime
    /\ now' = now + 1
    /\ UNCHANGED << sup, state, file, tmp, lock, wsVars, chkVars, histVars, storeVars, bootVars, ingVars, fwdVars, toolVars >>

(***************************************************************************)
(* ws_loop.  An exception anywhere in the read loop (here: from note) is   *)
(* caught by the outer handler, which drops the rest of the frame and      *)
(* reconnects.                                                             *)
(***************************************************************************)
\* msg = ws.recv(); the zones matched by the event are queued for note
WsRecv(e) ==
    /\ wpc = "recv"
    /\ wMid' = IF MatchedZones(e) = << >> THEN "" ELSE e.mid
    /\ wQueue' = MatchedZones(e)
    /\ wpc' = IF MatchedZones(e) = << >> THEN "recv" ELSE "note"
    /\ UNCHANGED << now, sup, state, file, tmp, lock, chkVars, histVars, storeVars, bootVars, ingVars, fwdVars, toolVars >>

\* note that starts the alert map afresh
NoteSet_ResetsAlerts ==
    /\ wpc = "note"
    /\ lock = "free"
    /\ "last_seen" \in DOMAIN state
    /\ state' = [last_seen |-> Put(state.last_seen, KeyOf(wMid, Head(wQueue)), now),
                 last_alert |-> EmptyDict]
    /\ lock' = "ws"
    /\ wpc' = "note_save"
    /\ UNCHANGED << wQueue, wMid >>
    /\ UNCHANGED << now, sup, file, tmp, chkVars, histVars, storeVars, bootVars, ingVars, fwdVars, toolVars >>

\* Engine.note, first half: take the lock, state["last_seen"][key] = time.time()
NoteSet ==
    /\ wpc = "note"
    /\ lock = "free"
    /\ IF "last_seen" \in DOMAIN state
       THEN /\ state' = [state EXCEPT !.last_seen =
                            Put(@, KeyOf(wMid, Head(wQueue)), now)]
            /\ lock' = "ws"
            /\ wpc' = "note_save"
            /\ UNCHANGED wQueue
            /\ UNCHANGED wMid
       ELSE \* KeyError: the with block releases the lock, ws_loop catches
            /\ wpc' = "recv"
            /\ wQueue' = << >>
            /\ wMid' = ""
            /\ UNCHANGED << state, lock >>
    /\ UNCHANGED << now, sup, file, tmp, chkVars, histVars, storeVars, bootVars, ingVars, fwdVars, toolVars >>

\* note without the write-through: the lock is released with nothing saved
NoteSaveOk_WriteBack ==
    /\ wpc = "note_save"
    /\ lock' = "free"
    /\ wQueue' = Tail(wQueue)
    /\ wpc' = IF Tail(wQueue) = << >> THEN "recv" ELSE "note"
    /\ wMid' = IF Tail(wQueue) = << >> THEN "" ELSE wMid
    /\ failRun' = 0
    /\ UNCHANGED << now, sup, state, file, tmp, chkVars, lastMark,
                    dirtyRead, storeVars, bootVars, ingVars, fwdVars, toolVars >>

\* Engine.note, second half: save_state(self.state), release the lock
NoteSaveOk ==
    /\ wpc = "note_save"
    /\ file' = save_state(state)
    /\ lock' = "free"
    /\ wQueue' = Tail(wQueue)
    /\ wpc' = IF Tail(wQueue) = << >> THEN "recv" ELSE "note"
    /\ wMid' = IF Tail(wQueue) = << >> THEN "" ELSE wMid
    /\ failRun' = 0
    /\ UNCHANGED << now, sup, state, tmp, chkVars, lastMark,
                    dirtyRead, storeVars, bootVars, ingVars, fwdVars, toolVars >>

\* a failed save that drops the entry note has just set
NoteSaveFail_Forgets ==
    /\ wpc = "note_save"
    /\ failRun < MaxFailRun
    /\ failRun' = failRun + 1
    /\ state' = load_state(file)
    /\ lock' = "free"
    /\ wQueue' = << >>
    /\ wMid' = ""
    /\ wpc' = "recv"
    /\ UNCHANGED << now, sup, file, tmp, chkVars, lastMark,
                    dirtyRead, storeVars, bootVars, ingVars, fwdVars, toolVars >>

\* save_state raises (the temporary file cannot be opened): the lock is
\* released, the state file is untouched, ws_loop catches and reconnects
NoteSaveFail ==
    /\ wpc = "note_save"
    /\ failRun < MaxFailRun
    /\ failRun' = failRun + 1
    /\ lock' = "free"
    /\ wQueue' = << >>
    /\ wMid' = ""
    /\ wpc' = "recv"
    /\ UNCHANGED << now, sup, state, file, tmp, chkVars, lastMark,
                    dirtyRead, storeVars, bootVars, ingVars, fwdVars, toolVars >>

(***************************************************************************)
(* check_loop.  One pass evaluates the configured pairs in order; an       *)
(* exception anywhere in the pass is caught outside the for loops: the     *)
(* rest of the pass is skipped and the loop sleeps 5 s instead of 60 s.    *)
(***************************************************************************)
SleepInterval == 60
SleepRetry == 5

\* minutes_since(ts), evaluated at time t
minutes_since(ts, t) == t - ts

\* should_alert with the suppression gate left open
should_alert_AlwaysOpen(st, key, suppress_min, t) == TRUE

\* should_alert with >= in place of >
should_alert_AtBoundary(st, key, suppress_min, t) ==
    minutes_since(Get(st.last_alert, key, 0), t) >= suppress_min

\* Engine.should_alert(key, suppress_min), evaluated at time t
should_alert(st, key, suppress_min, t) ==
    minutes_since(Get(st.last_alert, key, 0), t) > suppress_min

\* if not last: the key was never seen (or its timestamp is 0)
NotSeen_Ignored(last) == FALSE

NotSeen(last) == last = 0

\* the idle test with the comparison turned round
IdleExceeded_Reversed(last, max_idle, t) == minutes_since(last, t) < max_idle

\* idle > max_idle, with idle = minutes_since(last)
IdleExceeded(last, max_idle, t) == minutes_since(last, t) > max_idle

\* the except clause of check_loop: log, time.sleep(5)
CheckRaise ==
    /\ cpc' = "sleep"
    /\ cSleep' = SleepRetry
    /\ cSent' = NoSends
    /\ cIdx' = 1
    /\ cLast' = 0
    /\ passDisp' = [k \in Keys |-> 0]

\* continue / end of the loop body: on to the next pair
CheckNextPair ==
    /\ cpc' = "pair"
    /\ cIdx' = cIdx + 1
    /\ cSent' = NoSends
    /\ cLast' = 0
    /\ UNCHANGED << cSleep, passDisp >>

\* last = self.state["last_seen"].get(key); if not last: continue
CheckRead ==
    /\ cpc = "pair"
    /\ cIdx <= Len(Pairs)
    /\ IF "last_seen" \notin DOMAIN state
       THEN CheckRaise /\ UNCHANGED dirtyRead
       ELSE LET last == Get(state.last_seen, PairKey(cIdx), 0)
            IN /\ dirtyRead' = (/\ lock = "ws"
                                /\ wpc = "note_save"
                                /\ KeyOf(wMid, Head(wQueue)) = PairKey(cIdx))
               /\ IF NotSeen(last)
                  THEN CheckNextPair
                  ELSE /\ cLast' = last
                       /\ cpc' = "decide"
                       /\ UNCHANGED << cIdx, cSent, cSleep, passDisp >>
    /\ UNCHANGED << now, sup, state, file, tmp, lock, wsVars, lastMark,
                    failRun, storeVars, bootVars, ingVars, fwdVars, toolVars >>

\* idle = minutes_since(last); if idle > max_idle and self.should_alert(key, sup)
CheckDecide ==
    /\ cpc = "decide"
    /\ IF ~IdleExceeded(cLast, Pairs[cIdx].max_inactive_minutes, now)
       THEN CheckNextPair
       ELSE IF "last_alert" \notin DOMAIN state
            THEN CheckRaise
            ELSE IF should_alert(state, PairKey(cIdx), sup, now)
                 THEN /\ cpc' = "send_tg"
                      /\ UNCHANGED << cIdx, cLast, cSent, cSleep, passDisp >>
                 ELSE CheckNextPair
    /\ dirtyRead' = FALSE
    /\ UNCHANGED << now, sup, state, file, tmp, lock, wsVars, lastMark,
                    failRun, storeVars, bootVars, ingVars, fwdVars, toolVars >>

\* the alert marked as soon as the first send has returned
SendTelegram_ThenMark(o) ==
    /\ cpc = "send_tg"
    /\ cSent' = o
    /\ passDisp' = [passDisp EXCEPT ![PairKey(cIdx)] = @ + 1]
    /\ cpc' = "mark"
    /\ UNCHANGED << now, sup, state, file, tmp, lock, wsVars, cIdx, cLast, cSleep,
                    lastMark, dirtyRead, failRun, storeVars, bootVars, ingVars, fwdVars, toolVars >>

\* send_telegram(text, topic=topic): returns whatever the outcome
SendTelegram(o) ==
    /\ cpc = "send_tg"
    /\ cSent' = o
    /\ passDisp' = [passDisp EXCEPT ![PairKey(cIdx)] = @ + 1]
    /\ cpc' = "send_wa"
    /\ UNCHANGED << now, sup, state, file, tmp, lock, wsVars, cIdx, cLast, cSleep,
                    lastMark, dirtyRead, failRun, storeVars, bootVars, ingVars, fwdVars, toolVars >>

\* send_whatsapp(text): returns whatever the outcome
SendWhatsapp(o) ==
    /\ cpc = "send_wa"
    /\ cSent' = Delivery(cSent, o)
    /\ cpc' = "mark"
    /\ UNCHANGED << now, sup, state, file, tmp, lock, wsVars, cIdx, cLast, cSleep,
                    passDisp, histVars, storeVars, bootVars, ingVars, fwdVars, toolVars >>

\* mark_alert called only when a channel delivered the alert
MarkSet_OnlyDelivered ==
    /\ cpc = "mark"
    /\ lock = "free"
    /\ lock' = "chk"
    /\ state' = IF cSent = "delivered"
                THEN [state EXCEPT !.last_alert = Put(@, PairKey(cIdx), now)]
                ELSE state
    /\ lastMark' = IF cSent = "delivered"
                   THEN [lastMark EXCEPT ![PairKey(cIdx)] = now]
                   ELSE lastMark
    /\ cpc' = "mark_save"
    /\ UNCHANGED << now, sup, file, tmp, wsVars, cIdx, cLast, cSent, cSleep,
                    passDisp, dirtyRead, failRun, storeVars, bootVars, ingVars, fwdVars, toolVars >>

\* Engine.mark_alert, first half: take the lock,
\* state["last_alert"][key] = time.time()
MarkSet ==
    /\ cpc = "mark"
    /\ lock = "free"
    /\ lock' = "chk"
    /\ state' = [state EXCEPT !.last_alert = Put(@, PairKey(cIdx), now)]
    /\ lastMark' = [lastMark EXCEPT ![PairKey(cIdx)] = now]
    /\ cpc' = "mark_save"
    /\ UNCHANGED << now, sup, file, tmp, wsVars, cIdx, cLast, cSent, cSleep,
                    passDisp, dirtyRead, failRun, storeVars, bootVars, ingVars, fwdVars, toolVars >>

\* mark_alert whose save writes nothing
MarkSaveDone_Unsaved(track) ==
    /\ cpc = "mark_save"
    /\ lock' = "free"
    /\ failRun' = 0
    /\ retMark' = IF track
                  THEN [retMark EXCEPT ![PairKey(cIdx)] =
                                          state.last_alert[PairKey(cIdx)]]
                  ELSE retMark
    /\ CheckNextPair
    /\ UNCHANGED << now, sup, state, file, tmp, wsVars, lastMark, dirtyRead,
                    storeVars, killMark, ingVars, fwdVars, toolVars >>

\* Engine.mark_alert, second half: save_state(self.state), release the lock,
\* return.  With track, the return is recorded in the history retMark.
MarkSaveDone(track) ==
    /\ cpc = "mark_save"
    /\ file' = save_state(state)
    /\ lock' = "free"
    /\ failRun' = 0
    /\ retMark' = IF track
                  THEN [retMark EXCEPT ![PairKey(cIdx)] =
                                          state.last_alert[PairKey(cIdx)]]
                  ELSE retMark
    /\ CheckNextPair
    /\ UNCHANGED << now, sup, state, tmp, wsVars, lastMark, dirtyRead,
                    storeVars, killMark, ingVars, fwdVars, toolVars >>

MarkSaveOk == MarkSaveDone(FALSE)

\* save_state raises: the lock is released and the pass is abandoned
MarkSaveFail ==
    /\ cpc = "mark_save"
    /\ failRun < MaxFailRun
    /\ failRun' = failRun + 1
    /\ lock' = "free"
    /\ CheckRaise
    /\ UNCHANGED << now, sup, state, file, tmp, wsVars, lastMark,
                    dirtyRead, storeVars, bootVars, ingVars, fwdVars, toolVars >>

\* the for loops are exhausted: time.sleep(60)
CheckSleep ==
    /\ cpc = "pair"
    /\ cIdx > Len(Pairs)
    /\ cpc' = "sleep"
    /\ cSleep' = SleepInterval
    /\ cIdx' = 1
    /\ passDisp' = [k \in Keys |-> 0]
    /\ UNCHANGED << now, sup, state, file, tmp, lock, wsVars, cLast, cSent,
                    lastMark, dirtyRead, failRun, storeVars, bootVars, ingVars, fwdVars, toolVars >>

\* the sleep returns: the next pass starts
CheckWake ==
    /\ cpc = "sleep"
    /\ cpc' = "pair"
    /\ cSleep' = 0
    /\ UNCHANGED << now, sup, state, file, tmp, lock, wsVars, cIdx, cLast, cSent,
                    passDisp, histVars, storeVars, bootVars, ingVars, fwdVars, toolVars >>

CheckStep ==
    \/ CheckRead
    \/ CheckDecide
    \/ \E o \in Outcomes : SendTelegram(o)
    \/ \E o \in Outcomes : SendWhatsapp(o)
    \/ MarkSet
    \/ MarkSaveOk
    \/ MarkSaveFail
    \/ CheckSleep
    \/ CheckWake

Next ==
    \/ Tick
    \/ \E e \in Events : WsRecv(e)
    \/ NoteSet
    \/ NoteSaveOk
    \/ NoteSaveFail
    \/ CheckRead
    \/ CheckDecide
    \/ \E o \in Outcomes : SendTelegram(o)
    \/ \E o \in Outcomes : SendWhatsapp(o)
    \/ MarkSet
    \/ MarkSaveOk
    \/ MarkSaveFail
    \/ CheckSleep
    \/ CheckWake

Spec == Init /\ [][Next]_vars

\* The daemon with its two threads scheduled fairly: check_loop always takes
\* its next step, gets the lock when it is free again and again, and a
\* save_state call returns (or raises) in either thread.
Fairness ==
    /\ WF_vars(CheckStep)
    /\ SF_vars(MarkSet)
    /\ WF_vars(NoteSaveOk \/ NoteSaveFail)

LiveSpec == Spec /\ Fairness

(***************************************************************************)
(* Properties of the daemon.                                               *)
(***************************************************************************)
\* the key of the pair check_loop is evaluating
CurKey == PairKey(cIdx)

\* the step in which check_loop decides to dispatch an alert for CurKey
DecidesToAlert == cpc = "decide" /\ cpc' = "send_tg"

\* the step in which check_loop settles the if of the current pair
Decides == cpc = "decide" /\ cpc' # "decide"

\* C1: once mark_alert has recorded an alert for a key at time T, no check
\* pass decides to dispatch for that key at a time T' with
\* T' - T < suppress_minutes, whatever the idle time and whether or not
\* activity was noted in between.
C1_NoDispatchInWindow ==
    [][DecidesToAlert =>
        (lastMark[CurKey] # 0 => ~(now - lastMark[CurKey] < sup))]_vars

\* a pass is evaluating an idle key less than suppress_minutes after
\* mark_alert recorded an alert for it
C1_Witness ==
    /\ cpc = "decide"
    /\ lastMark[CurKey] # 0
    /\ now - lastMark[CurKey] < sup
    /\ IdleExceeded(cLast, Pairs[cIdx].max_inactive_minutes, now)

\* C2: for a configured key with no last_seen entry no alert is dispatched
\* and last_alert is never written, however much time passes.
C2_NeverSeenNeverAlerts ==
    \A i \in 1..Len(Pairs) :
        ("last_seen" \in DOMAIN state /\ PairKey(i) \notin DOMAIN state.last_seen) =>
            /\ passDisp[PairKey(i)] = 0
            /\ lastMark[PairKey(i)] = 0
            /\ PairKey(i) \notin DOMAIN state.last_alert
            /\ (cpc \in {"decide", "send_tg", "send_wa", "mark", "mark_save"}
                    => cIdx # i)

\* at the end of the clock a pass has gone past the never-seen first pair
\* while the second pair has been seen
C2_Witness ==
    /\ now = MaxTime
    /\ cpc = "pair"
    /\ cIdx > 1
    /\ PairKey(1) \notin DOMAIN state.last_seen
    /\ PairKey(2) \in DOMAIN state.last_seen

\* the condition under which the pair being evaluated is due an alert:
\* idle for more than max_inactive_minutes, and never alerted or alerted
\* more than suppress_minutes ago
Due ==
    /\ now - cLast > Pairs[cIdx].max_inactive_minutes
    /\ (lastMark[CurKey] = 0 \/ now - lastMark[CurKey] > sup)

\* C3: when a pass evaluates a key with a recorded last_seen it goes on to
\* dispatch exactly when the key is Due (both comparisons strict), and a
\* pass dispatches at most once for a key.
C3_DispatchIffDue ==
    /\ [](\A k \in Keys : passDisp[k] <= 1)
    /\ [][Decides =>
            /\ Due => (cpc' = "send_tg" /\ passDisp[CurKey] = 0)
            /\ ~Due => (cpc' = "pair" /\ cIdx' = cIdx + 1 /\ passDisp' = passDisp)]_vars
    /\ [][(cpc = "send_tg" /\ cpc' # "send_tg") =>
            passDisp' = [passDisp EXCEPT ![CurKey] = 1]]_vars

\* a key alerted before is dispatched again once the window has passed
C3_Witness ==
    /\ cpc = "send_wa"
    /\ passDisp[CurKey] = 1
    /\ lastMark[CurKey] # 0
    /\ now - lastMark[CurKey] > sup

\* C4: once an alert is dispatched nothing but mark_alert follows the sends,
\* and mark_alert sets last_alert[key] to the current time whatever the
\* sends' outcomes; a failing save leaves that entry in memory.
C4_AttemptConsumesWindow ==
    /\ [][(cpc \in {"send_tg", "send_wa"}) =>
            (cpc' \in {"send_tg", "send_wa", "mark"} /\ cIdx' = cIdx)]_vars
    /\ [][(cpc = "mark" /\ cpc' # "mark") =>
            /\ cpc' = "mark_save"
            /\ cIdx' = cIdx
            /\ CurKey \in DOMAIN state'.last_alert
            /\ state'.last_alert[CurKey] = now]_vars
    /\ [][(cpc = "mark_save") => state'.last_alert = state.last_alert]_vars

\* mark_alert has recorded an alert that no channel delivered
C4_Witness ==
    /\ cpc = "mark_save"
    /\ cSent = "undelivered"
    /\ state.last_alert[CurKey] = now

\* C6: state changes only in a step that takes the lock, the lock is given
\* back only by the save that follows, and so, when the lock is free and the
\* last save succeeded, the state file holds the in-memory state.
C6_WriteThrough ==
    /\ [](lock = "free" /\ failRun = 0 => load_state(file) = state)
    /\ [][state' # state => (lock = "free" /\ lock' # "free")]_vars
    /\ [][(lock # "free" /\ lock' = "free") =>
            (file' = save_state(state) \/ failRun' = failRun + 1)]_vars

\* both maps are non-empty, saved, and the lock is free
C6_Witness ==
    /\ lock = "free"
    /\ failRun = 0
    /\ file.exists
    /\ DOMAIN state = Names
    /\ state.last_seen # EmptyDict
    /\ state.last_alert # EmptyDict

\* C7: check_loop never reads a last_seen value that note has set in memory
\* and not yet saved (every access being made under the lock).
C7_NoUnsavedRead == ~dirtyRead

\* pair i has recorded activity, has been idle for more than its
\* max_inactive_minutes, and no alert for it was recorded within
\* suppress_minutes
Eligible(i) ==
    /\ "last_seen" \in DOMAIN state
    /\ PairKey(i) \in DOMAIN state.last_seen
    /\ now - state.last_seen[PairKey(i)] > Pairs[i].max_inactive_minutes
    /\ (lastMark[PairKey(i)] = 0 \/ now - lastMark[PairKey(i)] > sup)

\* check_loop is dispatching an alert for pair i (mark_alert not yet called)
Dispatching(i) == cpc \in {"send_tg", "send_wa", "mark"} /\ cIdx = i

\* activity for pair i has arrived: it is no longer idle past its threshold
ActiveAgain(i) ==
    /\ "last_seen" \in DOMAIN state
    /\ PairKey(i) \in DOMAIN state.last_seen
    /\ now - state.last_seen[PairKey(i)] <= Pairs[i].max_inactive_minutes

\* C5: with check_loop scheduled fairly, a key that is idle past its
\* threshold and outside any suppression window is eventually dispatched,
\* unless activity for it arrives first.
C5_EventuallyDispatched ==
    \A i \in 1..Len(Pairs) : Eligible(i) ~> (Dispatching(i) \/ ActiveAgain(i))

\* the second pair, alerted before, is being dispatched again with the first
\* pair idle too and the stream quiet
C5_Witness ==
    /\ Dispatching(2)
    /\ cpc = "send_tg"
    /\ lastMark[PairKey(2)] # 0
    /\ PairKey(1) \in DOMAIN state.last_seen
    /\ wpc = "recv"

\* the step in which the evaluation of a pair raises: check_loop leaves the
\* pass for the short sleep
PairRaises == cpc \in {"pair", "decide", "mark_save"} /\ cSleep' = SleepRetry

\* C21: when the evaluation of a pair that is not the last of its pass
\* raises (the state holding both maps, so that the exception is the save
\* of mark_alert failing), the pass goes on with the next pair.
C21_PassSurvivesException ==
    [][(PairRaises /\ DOMAIN state = Names /\ cIdx < Len(Pairs)) =>
            (cpc' = "pair" /\ cIdx' = cIdx + 1)]_vars

\* the outcomes of the two sends of one alert, once both have returned
BothReturned == {"delivered", "undelivered"}

\* C22: mark_alert is entered, and last_alert written, only when both sends
\* of the alert have returned, whatever their outcomes; check_loop leaves a
\* pair it has dispatched for only from mark_alert's save, with last_alert
\* of the key holding the time mark_alert set.
C22_SendsThenMarkThenNext ==
    /\ [][(cpc # "mark_save" /\ cpc' = "mark_save") =>
            (cpc = "mark" /\ cSent \in BothReturned)]_vars
    /\ [][lastMark' # lastMark =>
            (cpc = "mark" /\ cSent \in BothReturned)]_vars
    /\ [][(cpc = "send_tg" /\ cpc' # "send_tg") => cpc' = "send_wa"]_vars
    /\ [][(cpc = "send_wa" /\ cpc' # "send_wa") =>
            (cpc' = "mark" /\ cSent' \in BothReturned)]_vars
    /\ [][(cpc \in {"send_tg", "send_wa", "mark", "mark_save"} /\ cIdx' # cIdx) =>
            /\ cpc = "mark_save"
            /\ CurKey \in DOMAIN state.last_alert
            /\ state.last_alert[CurKey] = lastMark[CurKey]]_vars

\* the alert of the first pair, delivered, is being saved while the second
\* pair is still to be evaluated
C22_Witness ==
    /\ cpc = "mark_save"
    /\ cIdx = 1
    /\ cSent = "delivered"
    /\ state.last_alert[CurKey] = now

\* C31: in the daemon the state changes only in note and in mark_alert.
\* note leaves last_alert as it was; mark_alert leaves last_seen as it was
\* and changes last_alert only at the key of the pair it alerted; no step
\* removes a key from either map.
C31_FrameEffects ==
    [][state' # state =>
          /\ DOMAIN state = Names /\ DOMAIN state' = Names
          /\ DOMAIN state.last_seen \subseteq DOMAIN state'.last_seen
          /\ DOMAIN state.last_alert \subseteq DOMAIN state'.last_alert
          /\ \/ /\ wpc = "note" /\ wpc' = "note_save"
                /\ UNCHANGED chkVars
                /\ state'.last_alert = state.last_alert
             \/ /\ cpc = "mark" /\ cpc' = "mark_save"
                /\ UNCHANGED wsVars
                /\ state'.last_seen = state.last_seen
                /\ DOMAIN state'.last_alert = DOMAIN state.last_alert \cup {CurKey}
                /\ \A k \in DOMAIN state.last_alert \ {CurKey} :
                       state'.last_alert[k] = state.last_alert[k]]_vars

\* note has just set a key while the other key carries an alert mark
C31_Witness ==
    /\ wpc = "note_save"
    /\ DOMAIN state = Names
    /\ KeyOf(wMid, Head(wQueue)) \notin DOMAIN state.last_alert
    /\ state.last_seen[KeyOf(wMid, Head(wQueue))] = now
    /\ state.last_alert # EmptyDict

\* C35: whenever check_loop sends an alert for a key, the last_seen the
\* state holds for that key at that moment is older than the pair's
\* max_inactive_minutes: activity noted since the checker read last_seen
\* prevents the alert.
C35_DispatchOnlyIfStillIdle ==
    [][(cpc = "send_tg" /\ cpc' = "send_wa") =>
          IdleExceeded(state.last_seen[CurKey],
                       Pairs[cIdx].max_inactive_minutes, now)]_vars

\* C27: a save that fails inside note or mark_alert leaves the state in
\* memory and the file as they were and its loop running (ws_loop back at
\* its read, check_loop in its short sleep); every save that succeeds
\* writes the whole state in memory, the entries whose save failed included.
C27_SaveFailureRetained ==
    /\ [][failRun' = failRun + 1 =>
            /\ state' = state /\ file' = file /\ lock' = "free"
            /\ \/ wpc = "note_save" /\ wpc' = "recv" /\ UNCHANGED chkVars
               \/ /\ cpc = "mark_save" /\ cpc' = "sleep" /\ cSleep' = SleepRetry
                  /\ UNCHANGED wsVars]_vars
    /\ [][file' # file =>
            (state' = state /\ load_state(file') = state /\ failRun' = 0)]_vars

\* mark_alert's save failed, check_loop is in its short sleep, and a save
\* of note has since written the alert's entry to the file
C27_Witness ==
    /\ cpc = "sleep"
    /\ cSleep = SleepRetry
    /\ failRun = 0
    /\ lock = "free"
    /\ DOMAIN state = Names
    /\ state.last_alert # EmptyDict
    /\ load_state(file) = state

(***************************************************************************)
(* The state store on its own: one process calls save_state on some state, *)
(* step by step, and may be killed at any step; then load_state is called  *)
(* (by the restarted engine or a CLI command).                             *)
(***************************************************************************)
\* timestamps of one and of two digits
StoreTimes == {MaxTime, 10 * MaxTime + StartTime}

\* every dict of timestamps over the keys
StoreDicts == UNION {[ks -> StoreTimes] : ks \in SUBSET Keys}

\* every state made of a last_seen map and a last_alert map
StoreStates == [last_seen : StoreDicts, last_alert : StoreDicts]

SampleState ==
    [last_seen |-> [k \in Keys |-> MaxTime],
     last_alert |-> [k \in {KeySeq[1]} |-> MaxTime]]

\* the state file found by the process: none, a saved state, a file cut
\* short, and well-formed JSON that is not a state document
StoreInitFiles ==
    { NoFile,
      FileOf(JsonDump(EmptyState)),
      FileOf(JsonDump(SampleState)),
      FileOf(SubSeq(JsonDump(SampleState), 1, Len(JsonDump(SampleState)) - 1)),
      FileOf(JsonDump(EmptyDict)),
      FileOf(JsonDump([last_seen |-> SampleState.last_seen])) }

\* the temporary file found by the process: none, or one an earlier killed
\* save left behind
StoreInitTmps == { NoFile, FileOf(SubSeq(JsonDump(SampleState), 1, 4)) }

InitStore ==
    /\ now = StartTime
    /\ sup \in {0}
    /\ file \in StoreInitFiles
    /\ tmp \in StoreInitTmps
    /\ state = EmptyState
    /\ lock = "free"
    /\ wpc = "recv" /\ wQueue = << >> /\ wMid = ""
    /\ cpc = "sleep" /\ cIdx = 1 /\ cLast = 0 /\ cSent = NoSends
    /\ cSleep = 0
    /\ lastMark = [k \in Keys |-> 0]
    /\ passDisp = [k \in Keys |-> 0]
    /\ dirtyRead = FALSE
    /\ failRun = 0
    /\ spc = "idle" /\ sNew = EmptyState /\ sOld = EmptyState
    /\ sPos = 0 /\ sLoaded = EmptyState
    /\ retMark = [k \in Keys |-> 0]
    /\ killMark = [k \in Keys |-> 0]
    /\ IngestIdle("off")
    /\ ForwarderIdle("off")
    /\ ToolsOff

daemonVars == << now, sup, state, lock, wsVars, chkVars, histVars, bootVars,
                ingVars, fwdVars, toolVars >>

\* save_state(st) is called
SaveBegin(st) ==
    /\ spc = "idle"
    /\ sNew' = st
    /\ sOld' = load_state(file)
    /\ spc' = "open"
    /\ UNCHANGED << file, tmp, sPos, sLoaded, daemonVars >>

\* with open(tmp, "w") as f: the temporary file is created or emptied
SaveOpen ==
    /\ spc = "open"
    /\ tmp' = FileOf(<< >>)
    /\ sPos' = 0
    /\ spc' = "write"
    /\ UNCHANGED << file, sNew, sOld, sLoaded, daemonVars >>

\* the dump written straight into the state file
SaveWrite_InPlace ==
    /\ spc = "write"
    /\ sPos < Len(SaveText(sNew))
    /\ sPos' = sPos + 1
    /\ file' = FileOf(SubSeq(SaveText(sNew), 1, sPos + 1))
    /\ UNCHANGED << spc, tmp, sNew, sOld, sLoaded, daemonVars >>

\* json.dump(state, f) writes the next piece of the text
SaveWrite ==
    /\ spc = "write"
    /\ sPos < Len(SaveText(sNew))
    /\ sPos' = sPos + 1
    /\ tmp' = FileOf(SubSeq(SaveText(sNew), 1, sPos + 1))
    /\ UNCHANGED << spc, file, sNew, sOld, sLoaded, daemonVars >>

\* the with block ends: the temporary file is closed
SaveClose ==
    /\ spc = "write"
    /\ sPos = Len(SaveText(sNew))
    /\ spc' = "replace"
    /\ UNCHANGED << file, tmp, sNew, sOld, sPos, sLoaded, daemonVars >>

\* os.replace(tmp, STATE_FILE): one atomic rename
SaveReplace ==
    /\ spc = "replace"
    /\ file' = tmp
    /\ tmp' = NoFile
    /\ spc' = "saved"
    /\ UNCHANGED << sNew, sOld, sPos, sLoaded, daemonVars >>

\* the process is killed inside save_state
SaveCrash ==
    /\ spc \in {"open", "write", "replace"}
    /\ spc' = "crashed"
    /\ UNCHANGED << file, tmp, sNew, sOld, sPos, sLoaded, daemonVars >>

\* load_state() is called: at start, after a save, or after a crash
StoreLoad ==
    /\ spc \in {"idle", "saved", "crashed"}
    /\ sLoaded' = load_state(file)
    /\ spc' = "loaded"
    /\ sOld' = IF spc = "idle" THEN load_state(file) ELSE sOld
    /\ UNCHANGED << file, tmp, sNew, sPos, daemonVars >>

NextStore ==
    \/ \E st \in StoreStates : SaveBegin(st)
    \/ SaveOpen
    \/ SaveWrite
    \/ SaveClose
    \/ SaveReplace
    \/ SaveCrash
    \/ StoreLoad

SpecStore == InitStore /\ [][NextStore]_vars

\* C8: whenever save_state is killed, at whatever step, the state file
\* loads as the state saved before or as the state being saved, whole.
C8_CrashAtomic ==
    spc \in {"open", "write", "replace", "saved", "crashed"} =>
        (load_state(file) = sOld \/ load_state(file) = sNew)

\* killed in the middle of the dump, with a saved state on file and a
\* different state half written
C8_Witness ==
    /\ spc = "crashed"
    /\ sPos > 0
    /\ sPos < Len(SaveText(sNew))
    /\ sOld # EmptyState
    /\ sNew # sOld
    /\ load_state(file) = sOld

\* C9: save_state(s) followed by load_state() returns s.
C9_RoundTrip == spc = "saved" => load_state(file) = sNew

\* a state with both maps filled and a two-digit timestamp has been saved
\* over a different one
C9_Witness ==
    /\ spc = "saved"
    /\ DOMAIN sNew.last_seen = Keys
    /\ DOMAIN sNew.last_alert = Keys
    /\ \E k \in Keys : sNew.last_alert[k] >= 10
    /\ sOld # sNew

\* C10: what load_state returns always holds both maps.
C10_LoadedHasBothMaps == spc = "loaded" => DOMAIN sLoaded = Names

(***************************************************************************)
(* The daemon killed and started again.  The process dies at any point,    *)
(* between any two steps of either thread; the new process builds its      *)
(* Engine from the state file and starts both loops from their beginning.  *)
(***************************************************************************)
\* mark_alert returning, recorded in retMark
MarkSaveOkTracked == MarkSaveDone(TRUE)

\* kill -9, then main again: Engine(cfg) runs load_state(), a new lock,
\* check_loop and ws_loop from their first line
Kill ==
    /\ killMark' = retMark
    /\ state' = load_state(file)
    /\ lock' = "free"
    /\ wpc' = "recv" /\ wQueue' = << >> /\ wMid' = ""
    /\ cpc' = "pair" /\ cIdx' = 1 /\ cLast' = 0 /\ cSent' = NoSends
    /\ cSleep' = 0
    /\ passDisp' = [k \in Keys |-> 0]
    /\ dirtyRead' = FALSE
    /\ UNCHANGED << now, sup, file, tmp, lastMark, failRun, storeVars, retMark, ingVars, fwdVars, toolVars >>

NextRestart ==
    \/ Tick
    \/ \E e \in Events : WsRecv(e)
    \/ NoteSet
    \/ NoteSaveOk
    \/ NoteSaveFail
    \/ CheckRead
    \/ CheckDecide
    \/ \E o \in Outcomes : SendTelegram(o)
    \/ \E o \in Outcomes : SendWhatsapp(o)
    \/ MarkSet
    \/ MarkSaveOkTracked
    \/ MarkSaveFail
    \/ CheckSleep
    \/ CheckWake
    \/ Kill

SpecRestart == Init /\ [][NextRestart]_vars

\* C11: when the daemon was killed after mark_alert(key) had returned at
\* time T, the restarted engine is never dispatching an alert for that key
\* at a time before T + suppress_minutes.
C11_CooldownSurvivesRestart ==
    (cpc \in {"send_tg", "send_wa", "mark"} /\ killMark[CurKey] # 0) =>
        now - killMark[CurKey] >= sup

\* a restarted engine is evaluating a key that is idle past its threshold,
\* inside the window of an alert marked before the kill
C11_Witness ==
    /\ cpc = "decide"
    /\ killMark[CurKey] # 0
    /\ now - killMark[CurKey] < sup
    /\ IdleExceeded(cLast, Pairs[cIdx].max_inactive_minutes, now)

(***************************************************************************)
(* Inbound frames.  A frame is empty, text that is not JSON, or a JSON     *)
(* value.  A JSON value is a record with a field ty; the other fields of   *)
(* an object are its keys.  An integer 0 is the string IntZero, so that    *)
(* every identifier is a string.                                           *)
(***************************************************************************)
\* obj.get(k) of a key that is missing: None
Absent == "<absent>"
IntZero == "<0>"

\* not v, for the values an identifier can take
Falsy(v) == v \in {Absent, "", IntZero}

\* str(v)
Str(v) == IF v = IntZero THEN "0" ELSE v

\* obj.get(k), for a key holding an identifier
Field(obj, k) == IF k \in DOMAIN obj THEN obj[k] ELSE Absent

\* obj.get(k), for a key holding text
FieldText(obj, k) == IF k \in DOMAIN obj THEN obj[k] ELSE << >>

\* obj.get(k), for a key holding a batch
FieldJson(obj, k) == IF k \in DOMAIN obj THEN obj[k] ELSE [ty |-> "null"]

\* a or b or ... : the first value that is true, else the last
RECURSIVE OrChain(_)
OrChain(vals) ==
    IF Len(vals) = 1 \/ ~Falsy(Head(vals)) THEN Head(vals)
    ELSE OrChain(Tail(vals))

\* the same for text
RECURSIVE OrText(_)
OrText(vals) ==
    IF Len(vals) = 1 \/ Head(vals) # << >> THEN Head(vals)
    ELSE OrText(Tail(vals))

\* the list under key k, empty unless isinstance(data.get(k), list)
ListUnder(data, k) ==
    IF FieldJson(data, k).ty = "array" THEN FieldJson(data, k).items ELSE << >>

\* parse_events, lines 151-156: the batch of a JSON object
EngineBatch(data) ==
    LET batch == ListUnder(data, "events") \o ListUnder(data, "Events")
                 \o ListUnder(data, "items")
    IN IF batch = << >> THEN << data >> ELSE batch

\* parse_events, lines 158-162: eid, mid and cause of one entry
EngineEid(obj, data) ==
    OrChain(<< Field(obj, "eid"), Field(obj, "event_id"), Field(obj, "EventID"),
               Field(obj, "eventId"), Field(data, "eid"), "" >>)

EngineMid(obj, data) ==
    OrChain(<< Field(obj, "mid"), Field(obj, "monitor_id"), Field(obj, "MonitorID"),
               Field(obj, "monitorId"), Field(data, "mid"), "" >>)

EngineCause(obj, data) ==
    OrText(<< FieldText(obj, "cause"), FieldText(data, "cause"), << >> >>)

\* an entry accepted although an identifier is empty
EngineAccepts_Any(obj, data) == TRUE

\* parse_events, line 163: if str(eid) and str(mid)
EngineAccepts(obj, data) ==
    Str(EngineEid(obj, data)) # "" /\ Str(EngineMid(obj, data)) # ""

\* parse_events, lines 157-165: the loop over the batch.  obj.get of an
\* entry that is not an object raises AttributeError and the list built so
\* far is lost.
RECURSIVE EngineEach(_, _)
EngineEach(batch, data) ==
    IF batch = << >> THEN [raised |-> FALSE, out |-> << >>]
    ELSE IF Head(batch).ty # "object" THEN [raised |-> TRUE, out |-> << >>]
    ELSE LET obj == Head(batch)
             rest == EngineEach(Tail(batch), data)
             ev == [eid |-> Str(EngineEid(obj, data)),
                    mid |-> Str(EngineMid(obj, data)),
                    cause |-> EngineCause(obj, data)]
         IN IF rest.raised THEN rest
            ELSE [raised |-> FALSE,
                  out |-> (IF EngineAccepts(obj, data) THEN << ev >> ELSE << >>)
                          \o rest.out]

\* parse_events(msg) of rules_engine.py: json.loads failing gives [];
\* data.get of a JSON value that is not an object raises AttributeError
parse_events(msg) ==
    IF msg.kind = "text" THEN [raised |-> FALSE, out |-> << >>]
    ELSE IF msg.data.ty # "object" THEN [raised |-> TRUE, out |-> << >>]
    ELSE EngineEach(EngineBatch(msg.data), msg.data)

\* causes: "L: Litter Z, o", "water", "litter water", "O: m,litter",
\* "Z: Water " and " Water:"
CauseLitterZone ==
    << "L", ":", " ", "L", "i", "t", "t", "e", "r", " ", "Z", ",", " ", "o" >>
CauseWater == << "w", "a", "t", "e", "r" >>
CauseBoth == << "l", "i", "t", "t", "e", "r", " ", "w", "a", "t", "e", "r" >>
CauseOther == << "O", ":", " ", "m", ",", "l", "i", "t", "t", "e", "r" >>
CauseColonOnly == << "Z", ":", " ", "W", "a", "t", "e", "r", " " >>
CauseColonLast == << " ", "W", "a", "t", "e", "r", ":" >>

Json(v) == [kind |-> "json", data |-> v]

\* the acknowledgement the event server sends for the auth frame
AuthAck ==
    Json([ty |-> "object", event |-> "auth", status |-> "Success"])

\* frames that are malformed: not JSON, or JSON that is not an object
MalformedFrames ==
    { [kind |-> "text"],
      Json([ty |-> "array", items |-> << >>]),
      Json([ty |-> "number"]) }

\* frames carrying one event that lacks an identifier
LackingFrames ==
    { Json([ty |-> "object", mid |-> "12", cause |-> CauseWater]),
      Json([ty |-> "object", eid |-> "9", mid |-> "", cause |-> CauseWater]) }

\* frames carrying one event
SingleFrames ==
    { Json([ty |-> "object", eid |-> "7", mid |-> "12", cause |-> CauseLitterZone]),
      Json([ty |-> "object", eid |-> "8", mid |-> "99", cause |-> CauseWater]),
      Json([ty |-> "object", eid |-> IntZero, mid |-> "12", cause |-> CauseWater]),
      Json([ty |-> "object", event_id |-> "9", monitor_id |-> "12",
            cause |-> CauseBoth]),
      Json([ty |-> "object", eid |-> "2", mid |-> "12", cause |-> CauseColonLast]),
      Json([ty |-> "object", eid |-> "2", mid |-> "12"]) }

\* a batch of three entries, the second being mid
BatchOf(mid) ==
    Json([ty |-> "object", event |-> "alarm",
          events |-> [ty |-> "array", items |->
             << [ty |-> "object", eid |-> "1", mid |-> "12",
                 cause |-> CauseLitterZone],
                mid,
                [ty |-> "object", eid |-> "3", mid |-> "12",
                 cause |-> CauseColonOnly] >>]])

\* frames carrying a batch
BatchFrames ==
    { BatchOf([ty |-> "object", eid |-> "2", mid |-> "12", cause |-> CauseOther]),
      BatchOf([ty |-> "object", mid |-> "12", cause |-> CauseWater]),
      BatchOf([ty |-> "object", eid |-> "2", color |-> "red"]),
      BatchOf([ty |-> "string"]),
      Json([ty |-> "object", event |-> "alarm",
            events |-> [ty |-> "array", items |->
               << [ty |-> "object", EventId |-> "5", MonitorId |-> "12",
                   Cause |-> CauseWater, Name |-> "Cage"] >>]]),
      Json([ty |-> "object", eid |-> "5", mid |-> "12",
            events |-> [ty |-> "array", items |->
               << [ty |-> "object", cause |-> CauseWater] >>]]),
      Json([ty |-> "object",
            items |-> [ty |-> "array", items |->
               << [ty |-> "object", eid |-> "4", mid |-> "12",
                   cause |-> CauseBoth] >>]]),
      Json([ty |-> "object",
            events |-> [ty |-> "object", EventId |-> "6", MonitorId |-> "12",
                        Cause |-> CauseWater, Name |-> "Cage"]]),
      Json([ty |-> "object", event |-> "alarm",
            events |-> [ty |-> "array", items |->
               << [ty |-> "object", EventId |-> "0", MonitorId |-> "12"],
                  [ty |-> "object", EventId |-> "5", Name |-> "Cage"] >>]]),
      Json([ty |-> "object", events |-> [ty |-> "string"]]) }

\* the acknowledgements
AuthAcks ==
    { AuthAck, Json([ty |-> "object", event |-> "AUTH", status |-> "Success"]) }

\* the frames the stream delivers
Frames ==
    {[kind |-> "empty"]} \cup AuthAcks \cup MalformedFrames \cup SingleFrames
    \cup BatchFrames

(***************************************************************************)
(* ws_loop with its connection, on its own: connect, send the auth frame,  *)
(* read frames, note the matched zones of every event; any exception ends  *)
(* the connection, sleeps backoff seconds and connects again.              *)
(***************************************************************************)
InitIngest ==
    /\ now = StartTime
    /\ sup \in {0}
    /\ file \in InitFiles
    /\ tmp = NoFile
    /\ state = load_state(file)
    /\ lock = "free"
    /\ wpc = "recv" /\ wQueue = << >> /\ wMid = ""
    /\ cpc = "sleep" /\ cIdx = 1 /\ cLast = 0 /\ cSent = NoSends
    /\ cSleep = 0
    /\ lastMark = [k \in Keys |-> 0]
    /\ passDisp = [k \in Keys |-> 0]
    /\ dirtyRead = FALSE
    /\ failRun = 0
    /\ spc = "off" /\ sNew = EmptyState /\ sOld = EmptyState
    /\ sPos = 0 /\ sLoaded = EmptyState
    /\ retMark = [k \in Keys |-> 0]
    /\ killMark = [k \in Keys |-> 0]
    /\ \/ IngestIdle("connect") /\ ForwarderIdle("off")
       \/ IngestIdle("off") /\ ForwarderIdle("connect") /\ file = NoFile
    /\ ToolsOff

otherVars == << sup, tmp, lock, wsVars, chkVars, lastMark, dirtyRead, storeVars,
                bootVars >>
engVars == << now, state, file, failRun, otherVars, ingVars, toolVars >>

\* an exception reaches the except clause of ws_loop: the connection and
\* whatever was left of the frame are dropped
WsRaise(what) ==
    /\ ipc' = "except"
    /\ iErr' = what
    /\ authSent' = FALSE
    /\ iEvents' = << >>
    /\ iZones' = << >>
    /\ iHint' = << >>
    /\ iNoted' = {}

\* create_connection(...); ws.settimeout(300)
WsConnect(ok) ==
    /\ ipc = "connect"
    /\ IF ok
       THEN /\ ipc' = "auth"
            /\ connOk' = TRUE
            /\ UNCHANGED << authSent, iErr, iEvents, iZones, iHint, iNoted >>
       ELSE /\ WsRaise("connect")
            /\ UNCHANGED connOk
    /\ iFrame' = NoFrame
    /\ UNCHANGED << now, state, file, failRun, backoff, slept, otherVars, fwdVars, toolVars >>

\* the read loop entered with no auth frame sent
WsAuth_Skipped(ok) ==
    /\ ipc = "auth"
    /\ ipc' = "recv"
    /\ backoff' = BackoffBase
    /\ UNCHANGED << authSent, iErr, iEvents, iZones, iHint, iNoted >>
    /\ UNCHANGED << now, state, file, failRun, slept, connOk, iFrame, otherVars, fwdVars, toolVars >>

\* ws.send(auth frame); log("connected"); backoff = 2
WsAuth(ok) ==
    /\ ipc = "auth"
    /\ IF ok
       THEN /\ authSent' = TRUE
            /\ backoff' = BackoffBase
            /\ ipc' = "recv"
            /\ UNCHANGED << iErr, iEvents, iZones, iHint, iNoted >>
       ELSE /\ WsRaise("send")
            /\ UNCHANGED backoff
    /\ UNCHANGED << now, state, file, failRun, slept, connOk, iFrame, otherVars, fwdVars, toolVars >>

\* the position after one event is done: the next event, or the next recv
AfterEvent(events) == IF events = << >> THEN "recv" ELSE "event"

\* msg = ws.recv(); if not msg: continue; parse_events(msg)
WsRead(m) ==
    /\ ipc = "recv"
    /\ iFrame' = m
    /\ IF m.kind = "empty"
       THEN UNCHANGED << ipc, iErr, authSent, iEvents, iZones, iHint, iNoted >>
       ELSE IF parse_events(m).raised
            THEN WsRaise("parse")
            ELSE /\ iEvents' = parse_events(m).out
                 /\ ipc' = AfterEvent(parse_events(m).out)
                 /\ UNCHANGED << iErr, authSent, iZones, iHint, iNoted >>
    /\ UNCHANGED << now, state, file, failRun, backoff, slept, connOk, otherVars, fwdVars, toolVars >>

\* ws.recv() raises: the 300 s timeout, the stream closed, a socket error
WsReadError ==
    /\ ipc = "recv"
    /\ iFrame' = NoFrame
    /\ WsRaise("recv")
    /\ UNCHANGED << now, state, file, failRun, backoff, slept, connOk, otherVars, fwdVars, toolVars >>

\* mconf = monitors.get(mid)
Configured(mid) == \E i \in 1..Len(Pairs) : Pairs[i].mid = mid

\* for e in parse_events(msg): the monitor's configuration is looked up;
\* an unknown monitor is skipped, else the zone hint is taken from the cause
WsEvent ==
    /\ ipc = "event"
    /\ LET e == Head(iEvents)
       IN IF ~Configured(e.mid)
          THEN /\ iEvents' = Tail(iEvents)
               /\ ipc' = AfterEvent(Tail(iEvents))
               /\ UNCHANGED << iZones, iHint >>
          ELSE /\ iHint' = parse_zone_from_cause(e.cause)
               /\ iZones' = MatchedZones(e)
               /\ ipc' = "zones"
               /\ UNCHANGED iEvents
    /\ iNoted' = {}
    /\ UNCHANGED << now, state, file, failRun, backoff, slept, connOk, authSent,
                    iErr, iFrame, otherVars, fwdVars, toolVars >>

\* self.note(mid, zname) for the next matched zone.  A state without
\* last_seen raises KeyError; a save that fails raises after the entry is set.
WsNote(ok) ==
    /\ ipc = "zones"
    /\ iZones # << >>
    /\ LET key == KeyOf(Head(iEvents).mid, Head(iZones))
       IN IF "last_seen" \notin DOMAIN state
          THEN /\ WsRaise("note")
               /\ UNCHANGED << state, file, failRun >>
          ELSE /\ state' = [state EXCEPT !.last_seen = Put(@, key, now)]
               /\ IF ok
                  THEN /\ file' = save_state(state')
                       /\ failRun' = 0
                       /\ iZones' = Tail(iZones)
                       /\ iNoted' = iNoted \cup {key}
                       /\ UNCHANGED << ipc, iErr, authSent, iEvents, iHint >>
                  ELSE /\ failRun < MaxFailRun
                       /\ failRun' = failRun + 1
                       /\ WsRaise("note")
                       /\ UNCHANGED file
    /\ UNCHANGED << now, backoff, slept, connOk, iFrame, otherVars, fwdVars, toolVars >>

\* the zones of the event are exhausted
WsEventDone ==
    /\ ipc = "zones"
    /\ iZones = << >>
    /\ iEvents' = Tail(iEvents)
    /\ ipc' = AfterEvent(Tail(iEvents))
    /\ iHint' = << >>
    /\ iNoted' = {}
    /\ UNCHANGED << now, state, file, failRun, backoff, slept, connOk, authSent,
                    iErr, iFrame, iZones, otherVars, fwdVars, toolVars >>

\* min(a, b)
Min(a, b) == IF a < b THEN a ELSE b

\* the except clause that ends the loop
WsExcept_Return ==
    /\ ipc = "except"
    /\ slept' = backoff
    /\ backoff' = Min(backoff * 2, BackoffCap)
    /\ connOk' = FALSE
    /\ iErr' = ""
    /\ ipc' = "done"
    /\ UNCHANGED << now, state, file, failRun, authSent, iFrame, iEvents, iZones,
                    iHint, iNoted, otherVars, fwdVars, toolVars >>

\* except Exception: log; time.sleep(backoff); backoff = min(backoff*2, 30);
\* then the while loop connects again
WsExcept ==
    /\ ipc = "except"
    /\ slept' = backoff
    /\ backoff' = Min(backoff * 2, BackoffCap)
    /\ connOk' = FALSE
    /\ iErr' = ""
    /\ ipc' = "connect"
    /\ UNCHANGED << now, state, file, failRun, authSent, iFrame, iEvents, iZones,
                    iHint, iNoted, otherVars, fwdVars, toolVars >>

(***************************************************************************)
(* main of zmes_ws_to_telegram.py: connect, send the auth frame and the    *)
(* filter frame, read frames, hand every new event to the alert hook; any  *)
(* exception ends the connection, sleeps 3 s and connects again.           *)
(***************************************************************************)
\* SEEN_MAX = 500, scaled down
SEEN_MAX == 2

\* ALLOWED_MONITOR_SET and ALLOWED_BEHAVIOR_SET with the environment unset
ALLOWED_MONITOR_SET == {}
ALLOWED_BEHAVIOR_SET == {}

\* str.lower(), for the event names of the frames
LowerName(s) == IF s = "AUTH" THEN "auth" ELSE s

\* bool(v) of a JSON value
Truthy(v) ==
    CASE v.ty = "null" -> FALSE
      [] v.ty = "array" -> v.items # << >>
      [] OTHER -> TRUE

\* parse_events of the forwarder, line 47:
\* data.get("events") or data.get("Events") or []
FwdBatch(data) ==
    IF Truthy(FieldJson(data, "events")) THEN FieldJson(data, "events")
    ELSE IF Truthy(FieldJson(data, "Events")) THEN FieldJson(data, "Events")
    ELSE [ty |-> "array", items |-> << >>]

\* lines 52-62: eid, mid, cause and name of one entry
FwdEid(obj) ==
    OrChain(<< Field(obj, "EventId"), Field(obj, "event_id"), Field(obj, "eid") >>)

FwdMid(obj) ==
    OrChain(<< Field(obj, "MonitorId"), Field(obj, "monitor_id"),
               Field(obj, "mid") >>)

FwdCause(obj) ==
    OrText(<< FieldText(obj, "Cause"), FieldText(obj, "cause"), << >> >>)

FwdName(obj) ==
    LET n == OrChain(<< Field(obj, "Name"), Field(obj, "name"), "" >>)
    IN IF Falsy(n) THEN "" ELSE n

\* line 66: if eid and mid
FwdAccepts(obj) == ~Falsy(FwdEid(obj)) /\ ~Falsy(FwdMid(obj))

\* lines 51-73: the loop over the entries.  obj.get of an entry that is not
\* an object raises AttributeError.
RECURSIVE FwdEach(_)
FwdEach(batch) ==
    IF batch = << >> THEN [raised |-> FALSE, out |-> << >>]
    ELSE IF Head(batch).ty # "object" THEN [raised |-> TRUE, out |-> << >>]
    ELSE LET obj == Head(batch)
             rest == FwdEach(Tail(batch))
             ev == [eid |-> Str(FwdEid(obj)), mid |-> Str(FwdMid(obj)),
                    cause |-> FwdCause(obj), name |-> FwdName(obj)]
         IN IF rest.raised THEN rest
            ELSE [raised |-> FALSE,
                  out |-> (IF FwdAccepts(obj) THEN << ev >> ELSE << >>)
                          \o rest.out]

\* parse_events(data) of zmes_ws_to_telegram.py: an object under the key is
\* a batch of one; iterating a number raises TypeError, and the characters
\* of a string have no get
fwd_parse_events(data) ==
    LET events == FwdBatch(data)
    IN CASE events.ty = "object" -> FwdEach(<< events >>)
         [] events.ty = "array" -> FwdEach(events.items)
         [] OTHER -> [raised |-> TRUE, out |-> << >>]

\* line 118: str(data.get("event", "")).lower() == "auth"
IsAuthFrame(data) == LowerName(Str(Field(data, "event"))) = "auth"

\* an exception reaches the except clause of main
FwdRaise ==
    /\ fpc' = "except"
    /\ fAuthSent' = FALSE
    /\ fEvents' = << >>

\* create_connection(WS_URL, timeout=5); ws.settimeout(300)
FwdConnect(ok) ==
    /\ fpc = "connect"
    /\ IF ok
       THEN fpc' = "auth" /\ UNCHANGED << fAuthSent, fEvents >>
       ELSE FwdRaise
    /\ fFrame' = NoFrame
    /\ UNCHANGED << seen_eids, fForwarded, fTwice, engVars >>

\* ws.send(auth frame); log("connected")
FwdAuth(ok) ==
    /\ fpc = "auth"
    /\ IF ok
       THEN fAuthSent' = TRUE /\ fpc' = "filter" /\ UNCHANGED fEvents
       ELSE FwdRaise
    /\ UNCHANGED << fFrame, seen_eids, fForwarded, fTwice, engVars >>

\* ws.send(filter frame)
FwdFilter(ok) ==
    /\ fpc = "filter"
    /\ IF ok
       THEN fpc' = "recv" /\ UNCHANGED << fAuthSent, fEvents >>
       ELSE FwdRaise
    /\ UNCHANGED << fFrame, seen_eids, fForwarded, fTwice, engVars >>

\* an auth frame taken for an error
FwdRead_NoAuthTest(m) ==
    /\ fpc = "recv"
    /\ fFrame' = m
    /\ IF m.kind \in {"empty", "text"}
       THEN UNCHANGED << fpc, fAuthSent, fEvents >>
       ELSE IF m.data.ty # "object" \/ IsAuthFrame(m.data)
               \/ fwd_parse_events(m.data).raised
            THEN FwdRaise
            ELSE /\ fEvents' = fwd_parse_events(m.data).out
                 /\ fpc' = AfterEvent(fwd_parse_events(m.data).out)
                 /\ UNCHANGED fAuthSent
    /\ UNCHANGED << seen_eids, fForwarded, fTwice, engVars >>

\* msg = ws.recv(); if not msg: continue; json.loads failing: continue;
\* data.get of a JSON value that is not an object raises AttributeError;
\* an auth frame: continue; parse_events(data)
FwdRead(m) ==
    /\ fpc = "recv"
    /\ fFrame' = m
    /\ IF m.kind \in {"empty", "text"}
       THEN UNCHANGED << fpc, fAuthSent, fEvents >>
       ELSE IF m.data.ty # "object"
            THEN FwdRaise
            ELSE IF IsAuthFrame(m.data)
                 THEN UNCHANGED << fpc, fAuthSent, fEvents >>
                 ELSE IF fwd_parse_events(m.data).raised
                      THEN FwdRaise
                      ELSE /\ fEvents' = fwd_parse_events(m.data).out
                           /\ fpc' = AfterEvent(fwd_parse_events(m.data).out)
                           /\ UNCHANGED fAuthSent
    /\ UNCHANGED << seen_eids, fForwarded, fTwice, engVars >>

\* ws.recv() raises: the 300 s timeout, the stream closed, a socket error
FwdReadError ==
    /\ fpc = "recv"
    /\ fFrame' = NoFrame
    /\ FwdRaise
    /\ UNCHANGED << seen_eids, fForwarded, fTwice, engVars >>

\* lines 125-143: the event is skipped
FwdSkips(e) ==
    \/ e.eid = "" \/ e.eid = "0"
    \/ e.eid \in seen_eids
    \/ (ALLOWED_MONITOR_SET # {} /\ e.mid \notin ALLOWED_MONITOR_SET)
    \/ (ALLOWED_BEHAVIOR_SET # {} /\ "zm_event" \notin ALLOWED_BEHAVIOR_SET)

\* for e in parse_events(data): the filters, seen_eids.add(eid), the clear
\* past SEEN_MAX, run_hook(eid, mid, payload), which catches its exceptions
FwdEvent ==
    /\ fpc = "event"
    /\ LET e == Head(fEvents)
       IN IF FwdSkips(e)
          THEN UNCHANGED << seen_eids, fForwarded, fTwice >>
          ELSE /\ seen_eids' = IF Cardinality(seen_eids \cup {e.eid}) > SEEN_MAX
                               THEN {}
                               ELSE seen_eids \cup {e.eid}
               /\ fForwarded' = fForwarded \cup {e.eid}
               /\ fTwice' = IF e.eid \in fForwarded THEN fTwice \cup {e.eid}
                            ELSE fTwice
    /\ fEvents' = Tail(fEvents)
    /\ fpc' = AfterEvent(Tail(fEvents))
    /\ UNCHANGED << fAuthSent, fFrame, engVars >>

\* except Exception: log; time.sleep(3); then the while loop connects again
FwdExcept ==
    /\ fpc = "except"
    /\ fpc' = "connect"
    /\ UNCHANGED << fAuthSent, fFrame, fEvents, seen_eids, fForwarded, fTwice,
                    engVars >>

\* The steps that bring ws_loop back: time.sleep(backoff) returns,
\* create_connection returns or raises within its timeout of 5 s, and
\* ws.send returns or raises.
IngestFairness ==
    /\ WF_vars(WsExcept)
    /\ WF_vars(WsConnect(TRUE) \/ WsConnect(FALSE))
    /\ WF_vars(WsAuth(TRUE) \/ WsAuth(FALSE))

NextIngest ==
    \/ Tick
    \/ \E ok \in BOOLEAN : WsConnect(ok)
    \/ \E ok \in BOOLEAN : WsAuth(ok)
    \/ \E m \in Frames : WsRead(m)
    \/ WsReadError
    \/ WsEvent
    \/ \E ok \in BOOLEAN : WsNote(ok)
    \/ WsEventDone
    \/ WsExcept
    \/ \E ok \in BOOLEAN : FwdConnect(ok)
    \/ \E ok \in BOOLEAN : FwdAuth(ok)
    \/ \E ok \in BOOLEAN : FwdFilter(ok)
    \/ \E m \in Frames : FwdRead(m)
    \/ FwdReadError
    \/ FwdEvent
    \/ FwdExcept

SpecIngest == InitIngest /\ [][NextIngest]_vars

LiveSpecIngest == SpecIngest /\ IngestFairness

\* C14: in both ingestion loops, whenever the loop stands at a read of the
\* stream the auth frame has been sent on the current connection, after the
\* connection was established: no frame is read on a connection without it.
C14_AuthBeforeRead ==
    /\ ipc \in {"recv", "event", "zones"} => (authSent /\ connOk)
    /\ fpc \in {"filter", "recv", "event"} => fAuthSent

\* the engine reads a frame on its second connection, after a reconnect
C14_Witness ==
    /\ ipc = "recv"
    /\ authSent
    /\ slept = BackoffBase
    /\ iFrame \in SingleFrames

\* the engine reads a frame
Reads == ipc = "recv" /\ iFrame' # NoFrame

\* the forwarder reads a frame
FwdReads == fpc = "recv" /\ fFrame' # NoFrame

\* C15: reading an authentication acknowledgement leaves the engine's state
\* and its file, the forwarder's remembered ids and the hook history as they
\* were, yields no event to process, and leaves the loop connected at its
\* read, with no reconnect.
C15_AuthAckIgnored ==
    [][ /\ (Reads /\ iFrame' \in AuthAcks) =>
              /\ state' = state /\ file' = file /\ lastMark' = lastMark
              /\ iEvents' = << >>
              /\ ipc' = "recv" /\ authSent' /\ slept' = slept
        /\ (FwdReads /\ fFrame' \in AuthAcks) =>
              /\ seen_eids' = seen_eids /\ fForwarded' = fForwarded
              /\ fTwice' = fTwice
              /\ fEvents' = << >>
              /\ fpc' = "recv" /\ fAuthSent' ]_vars

\* the forwarder, having forwarded an event, stands at its read after an
\* acknowledgement
C15_Witness ==
    /\ fpc = "recv"
    /\ fFrame = AuthAck
    /\ fAuthSent
    /\ fForwarded # {}

\* C18: every event parse_events returns, in the engine and in the
\* forwarder, has a non-empty event identifier and a non-empty monitor
\* identifier; a frame whose one event lacks either yields no event, and
\* changes neither the state, the file nor the hook history.
C18_OnlyIdentifiedEvents ==
    [][ /\ Reads =>
              /\ \A i \in 1..Len(iEvents') :
                     iEvents'[i].eid # "" /\ iEvents'[i].mid # ""
              /\ iFrame' \in LackingFrames =>
                     iEvents' = << >> /\ state' = state /\ file' = file
        /\ FwdReads =>
              /\ \A i \in 1..Len(fEvents') :
                     fEvents'[i].eid # "" /\ fEvents'[i].mid # ""
              /\ fFrame' \in LackingFrames =>
                     fEvents' = << >> /\ fForwarded' = fForwarded ]_vars

\* the engine holds the two identified events of a batch whose second entry
\* has no event identifier
C18_Witness ==
    /\ ipc = "event"
    /\ iFrame = BatchOf([ty |-> "object", mid |-> "12", cause |-> CauseWater])
    /\ Len(iEvents) = 2

\* C37: within one run of the forwarder no event id is handed to the hook
\* more than once, and the set of remembered ids never holds more than
\* SEEN_MAX entries.
C37_ForwardedAtMostOnce ==
    /\ fTwice = {}
    /\ Cardinality(seen_eids) <= SEEN_MAX

(***************************************************************************)
(* Properties of the ingestion loop.                                       *)
(***************************************************************************)
\* the step in which ws_loop sleeps and goes back to connecting
Sleeps == ipc = "except" /\ ipc' = "connect"

\* C12: the first failure after create_connection has returned sleeps the
\* base delay of 2 s.
C12_BaseDelayAfterConnect == [][(Sleeps /\ connOk) => slept' = BackoffBase]_vars

\* C13: after any failure (connect, send, read, parse or note) ws_loop is
\* connecting again: it has no terminal state.
C13_AlwaysReconnects == (ipc = "except") ~> (ipc = "connect" /\ ~authSent)

\* ws_loop is connecting again after five failures in a row, having slept
\* the capped delay
C13_Witness == ipc = "connect" /\ slept = BackoffCap /\ backoff = BackoffCap

\* the step in which ws_loop reads a frame
\* C16: a malformed frame (not JSON, or JSON that is not an object) changes
\* nothing in the state and leaves ws_loop connected, reading the next frame.
C16_MalformedFrameDropped ==
    [][(Reads /\ iFrame' \in MalformedFrames) =>
            (state' = state /\ file' = file /\ ipc' = "recv")]_vars

\* the events of a frame whose entries are well formed: objects with a
\* non-empty event identifier and a non-empty monitor identifier
WellFormedEvents(data) ==
    LET batch == EngineBatch(data)
        good(i) == batch[i].ty = "object" /\ EngineAccepts(batch[i], data)
        RECURSIVE from(_)
        from(i) ==
            IF i > Len(batch) THEN << >>
            ELSE (IF good(i)
                  THEN << [eid |-> Str(EngineEid(batch[i], data)),
                           mid |-> Str(EngineMid(batch[i], data)),
                           cause |-> EngineCause(batch[i], data)] >>
                  ELSE << >>) \o from(i + 1)
    IN from(1)

\* C17: for a frame that batches events, parse_events returns every
\* well-formed event of the batch, whatever the other entries are.
C17_BatchSurvivesBadEntry ==
    [][(Reads /\ iFrame' \in BatchFrames) =>
            iEvents' = WellFormedEvents(iFrame'.data)]_vars

\* s with the spaces at both ends removed is h
IsTrimOf(h, s) ==
    \E i \in 1..(Len(s) + 1) : \E j \in 0..Len(s) :
        /\ h = SubSeq(s, i, j)
        /\ \A x \in 1..(i - 1) : s[x] = " "
        /\ \A x \in (j + 1)..Len(s) : s[x] = " "
        /\ h = << >> \/ (h[1] # " " /\ h[Len(h)] # " ")

\* the text after the first colon
SecondSegment(cause) == SubSeq(cause, FirstIndex(cause, ":") + 1, Len(cause))

\* the text before the first comma, all of it if there is none
BeforeComma(s) ==
    IF FirstIndex(s, ",") = 0 THEN s ELSE SubSeq(s, 1, FirstIndex(s, ",") - 1)

\* the cause of the event whose zones ws_loop is going through
CurCause == Head(iEvents).cause

\* C19, as amended: the zone hint is the second segment of the cause, up to
\* its first comma, trimmed; with no colon it is the cause, trimmed.
C19_HintUpToComma ==
    ipc = "zones" =>
        IF FirstIndex(CurCause, ":") # 0
        THEN IsTrimOf(iHint, BeforeComma(SecondSegment(CurCause)))
        ELSE IsTrimOf(iHint, CurCause)

\* C19, as stated: the zone hint is the whole second segment, trimmed and
\* otherwise unchanged; with no colon it is the cause, trimmed.
C19_HintWholeSegment ==
    ipc = "zones" =>
        IF FirstIndex(CurCause, ":") # 0
        THEN IsTrimOf(iHint, SecondSegment(CurCause))
        ELSE IsTrimOf(iHint, CurCause)

\* the hint of "L: Litter Z, o" is "Litter Z"
C19_Witness ==
    /\ ipc = "zones"
    /\ CurCause = CauseLitterZone
    /\ iHint = << "L", "i", "t", "t", "e", "r", " ", "Z" >>

\* kw is a substring of hint, letter case ignored
InIgnoringCase(kw, hint) ==
    \E off \in 0..(Len(hint) - Len(kw)) :
        \A j \in 1..Len(kw) : LowerChar(hint[off + j]) = LowerChar(kw[j])

\* the keys of the zones of the event's monitor whose non-empty keyword is
\* in the hint
ExpectedKeys(e, hint) ==
    { PairKey(i) : i \in { x \in 1..Len(Pairs) :
                             /\ Pairs[x].mid = e.mid
                             /\ KeywordText(Pairs[x].keyword) # << >>
                             /\ InIgnoringCase(KeywordText(Pairs[x].keyword), hint) } }

\* C20: the state changes only by a note that sets last_seen of a matching
\* zone of the event's monitor to the current time, nothing else changing;
\* when an event has been gone through, every matching zone has been noted;
\* an event of an unconfigured monitor changes nothing and raises nothing.
C20_ExactlyMatchedZonesNoted ==
    [][/\ state' # state =>
            /\ ipc = "zones"
            /\ \E k \in ExpectedKeys(Head(iEvents), iHint) :
                  state' = [state EXCEPT !.last_seen = Put(@, k, now)]
       /\ (ipc = "zones" /\ ipc' \in {"recv", "event"}) =>
            iNoted = ExpectedKeys(Head(iEvents), iHint)
       /\ (ipc = "event" /\ ~Configured(Head(iEvents).mid)) =>
            (state' = state /\ ipc' # "except")]_vars

\* one event has had both zones of its monitor noted, the keyword of one
\* matching in another letter case
C20_Witness ==
    /\ ipc = "zones"
    /\ iZones = << >>
    /\ iNoted = Keys
    /\ DOMAIN state.last_seen = Keys

(***************************************************************************)
(* main of rules_engine.py, run from the command line: one process after   *)
(* another on the same configuration and state file.  argv is sys.argv,    *)
(* the program name first; sys.argv[k] is Arg(k).                          *)
(***************************************************************************)
Prog == "rules_engine.py"

\* the command lines
Args ==
    { << Prog >>,
      << Prog, "--simulate" >>,
      << Prog, "--simulate", "12" >>,
      << Prog, "--simulate", "12", "Litter" >>,
      << Prog, "--simulate", "12", "Water" >>,
      << Prog, "--backdate", "12", "Litter" >>,
      << Prog, "--backdate", "12", "Litter", "1m" >>,
      << Prog, "--backdate", "12", "Water", "2" >>,
      << Prog, "--backdate", "12", "Water", "1M" >>,
      << Prog, "--backdate", "12", "Litter", "x" >>,
      << Prog, "--clear-state" >>,
      << Prog, "--check" >>,
      << Prog, "--frobnicate" >>,
      << Prog, "simulate", "12", "Litter" >> }

\* sys.argv[k]
Arg(k) == argv[k + 1]

\* the subcommands main knows
Commands == {"--simulate", "--backdate", "--clear-state", "--check"}

\* the characters of an amount
Chars(s) ==
    CASE s = "1m" -> << "1", "m" >>
      [] s = "2" -> << "2" >>
      [] s = "1M" -> << "1", "M" >>
      [] OTHER -> << "x" >>

\* s.rstrip("m")
RECURSIVE RStripM(_)
RStripM(s) ==
    IF s # << >> /\ s[Len(s)] = "m" THEN RStripM(SubSeq(s, 1, Len(s) - 1)) ELSE s

\* the value of a text of digits
RECURSIVE NumOf(_)
NumOf(s) ==
    IF s = << >> THEN 0 ELSE 10 * NumOf(SubSeq(s, 1, Len(s) - 1)) + DigitVal(s[Len(s)])

\* float(sys.argv[4].lower().rstrip("m")): ValueError unless digits are left
ParseMinutes(s) ==
    LET amt == RStripM(Lower(Chars(s)))
    IN IF amt # << >> /\ \A i \in 1..Len(amt) : (\E d \in 1..10 : DigitChars[d] = amt[i])
       THEN [ok |-> TRUE, val |-> NumOf(amt)]
       ELSE [ok |-> FALSE, val |-> 0]

\* a fresh state holding the one entry
SetSeen_Fresh(st, key, t) == [last_seen |-> Put(EmptyDict, key, t)]

\* st.setdefault("last_seen", {})[key] = t
SetSeen(st, key, t) ==
    [n \in (DOMAIN st) \cup {"last_seen"} |->
        IF n = "last_seen"
        THEN Put(IF "last_seen" \in DOMAIN st THEN st.last_seen ELSE EmptyDict,
                 key, t)
        ELSE st[n]]

InitCli ==
    /\ now = StartTime
    /\ sup \in {0}
    /\ file \in InitFiles
    /\ tmp = NoFile
    /\ state = EmptyState
    /\ lock = "free"
    /\ wpc = "recv" /\ wQueue = << >> /\ wMid = ""
    /\ cpc = "sleep" /\ cIdx = 1 /\ cLast = 0 /\ cSent = NoSends
    /\ cSleep = 0
    /\ lastMark = [k \in Keys |-> 0]
    /\ passDisp = [k \in Keys |-> 0]
    /\ dirtyRead = FALSE
    /\ failRun = 0
    /\ spc = "off" /\ sNew = EmptyState /\ sOld = EmptyState
    /\ sPos = 0 /\ sLoaded = EmptyState
    /\ retMark = [k \in Keys |-> 0]
    /\ killMark = [k \in Keys |-> 0]
    /\ IngestIdle("off")
    /\ ForwarderIdle("off")
    /\ CliIdle("idle")
    /\ conf \in Configs
    /\ HookIdle("off") /\ hProg = "hook" /\ hEnv = FullEnv /\ waFile = NoStamp
    /\ SaversOff

cliOther == << sup, tmp, lock, wsVars, chkVars, histVars, storeVars, bootVars,
               ingVars, fwdVars, hookVars, duoVars >>

\* a process is started with the command line a
CliStart(a) ==
    /\ mpc \in {"idle", "exit"}
    /\ mpc' = "load"
    /\ argv' = a
    /\ exitCode' = -1
    /\ loopsStarted' = FALSE
    /\ state' = EmptyState
    /\ oIdx' = 1 /\ oLast' = 0 /\ oSent' = << >> /\ oEval' = << >>
    /\ UNCHANGED << now, file, conf, cliOther >>

\* the process ends: return code, sys.exit(code); 1 for an uncaught exception
CliExit(code) ==
    /\ mpc' = "exit"
    /\ exitCode' = code

\* cfg = load_yaml(CONF): open raises when the file is missing
CliLoad ==
    /\ mpc = "load"
    /\ IF ~conf.exists THEN CliExit(1) ELSE mpc' = "dispatch" /\ UNCHANGED exitCode
    /\ UNCHANGED << now, state, file, argv, conf, loopsStarted, oIdx, oLast,
                    oSent, oEval, cliOther >>

\* lines 319 and 322: too few arguments
CliUsage ==
    /\ mpc = "dispatch"
    /\ Len(argv) >= 2
    /\ \/ Arg(1) = "--simulate" /\ Len(argv) < 4
       \/ Arg(1) = "--backdate" /\ Len(argv) < 5
    /\ CliExit(2)
    /\ UNCHANGED << now, state, file, argv, conf, loopsStarted, oIdx, oLast,
                    oSent, oEval, cliOther >>

\* --simulate MID ZONE: simulate(mid, zone).  save_state may raise.
CliSimulate(ok) ==
    /\ mpc = "dispatch"
    /\ Len(argv) >= 2 /\ Arg(1) = "--simulate" /\ Len(argv) >= 4
    /\ IF ok
       THEN /\ file' = save_state(SetSeen(load_state(file),
                                          KeyOf(Arg(2), Arg(3)), now))
            /\ CliExit(0)
       ELSE /\ UNCHANGED file
            /\ CliExit(1)
    /\ UNCHANGED << now, state, argv, conf, loopsStarted, oIdx, oLast, oSent,
                    oEval, cliOther >>

\* --backdate MID ZONE Nm: float() of the amount may raise; backdate(mid,
\* zone, minutes)
CliBackdate(ok) ==
    /\ mpc = "dispatch"
    /\ Len(argv) >= 2 /\ Arg(1) = "--backdate" /\ Len(argv) >= 5
    /\ IF ParseMinutes(Arg(4)).ok /\ ok
       THEN /\ file' = save_state(SetSeen(load_state(file), KeyOf(Arg(2), Arg(3)),
                                          now - ParseMinutes(Arg(4)).val))
            /\ CliExit(0)
       ELSE /\ UNCHANGED file
            /\ CliExit(1)
    /\ UNCHANGED << now, state, argv, conf, loopsStarted, oIdx, oLast, oSent,
                    oEval, cliOther >>

\* --clear-state: clear_state()
CliClear(ok) ==
    /\ mpc = "dispatch"
    /\ Len(argv) >= 2 /\ Arg(1) = "--clear-state"
    /\ IF ok
       THEN file' = save_state(EmptyState) /\ CliExit(0)
       ELSE UNCHANGED file /\ CliExit(1)
    /\ UNCHANGED << now, state, argv, conf, loopsStarted, oIdx, oLast, oSent,
                    oEval, cliOther >>

\* --check: one_shot_check(cfg) begins with eng = Engine(cfg)
CliCheck ==
    /\ mpc = "dispatch"
    /\ Len(argv) >= 2 /\ Arg(1) = "--check"
    /\ state' = load_state(file)
    /\ mpc' = "os_pair"
    /\ UNCHANGED << now, file, argv, conf, exitCode, loopsStarted, oIdx, oLast,
                    oSent, oEval, cliOther >>

\* no argument, or a first argument that is none of the four: lines 331-333,
\* eng = Engine(cfg), the check_loop thread is started, ws_loop runs
CliDaemon ==
    /\ mpc = "dispatch"
    /\ IF Len(argv) < 2 THEN TRUE ELSE Arg(1) \notin Commands
    /\ state' = load_state(file)
    /\ loopsStarted' = TRUE
    /\ mpc' = "daemon"
    /\ UNCHANGED << now, file, argv, conf, exitCode, oIdx, oLast, oSent, oEval,
                    cliOther >>

\* the daemon is stopped from outside
CliStop ==
    /\ mpc = "daemon"
    /\ mpc' = "exit"
    /\ exitCode' = 0
    /\ UNCHANGED << now, state, file, argv, conf, loopsStarted, oIdx, oLast,
                    oSent, oEval, cliOther >>

\* the next pair of one_shot_check
OneShotNext ==
    /\ mpc' = "os_pair"
    /\ oIdx' = oIdx + 1
    /\ oLast' = 0
    /\ oSent' = << >>
    /\ UNCHANGED exitCode

\* an exception in one_shot_check: nothing catches it
OneShotRaise ==
    /\ CliExit(1)
    /\ UNCHANGED << oIdx, oLast, oSent >>

\* line 294-296: last = eng.state["last_seen"].get(key); if not last: continue
OneShotRead ==
    /\ mpc = "os_pair"
    /\ oIdx <= Len(conf.monitors)
    /\ oEval' = Append(oEval, oIdx)
    /\ IF "last_seen" \notin DOMAIN state
       THEN OneShotRaise
       ELSE LET last == Get(state.last_seen,
                            KeyOf(conf.monitors[oIdx].mid,
                                  conf.monitors[oIdx].zname), 0)
            IN IF NotSeen(last)
               THEN OneShotNext
               ELSE /\ oLast' = last
                    /\ mpc' = "os_decide"
                    /\ UNCHANGED << oIdx, oSent, exitCode >>
    /\ UNCHANGED << now, state, file, argv, conf, loopsStarted, cliOther >>

\* line 298: if idle > max_idle and eng.should_alert(key, sup)
OneShotDecide ==
    /\ mpc = "os_decide"
    /\ LET pair == conf.monitors[oIdx]
       IN IF ~IdleExceeded(oLast, pair.max_inactive_minutes, now)
          THEN OneShotNext
          ELSE IF "last_alert" \notin DOMAIN state
               THEN OneShotRaise
               ELSE IF should_alert(state, KeyOf(pair.mid, pair.zname),
                                    conf.suppress_minutes, now)
                    THEN /\ mpc' = "os_tg"
                         /\ UNCHANGED << oIdx, oLast, oSent, exitCode >>
                    ELSE OneShotNext
    /\ UNCHANGED << now, state, file, argv, conf, loopsStarted, oEval, cliOther >>

\* lines 301-302: send_telegram(text, topic=topic), then send_whatsapp(text);
\* each returns whatever its outcome
OneShotSend(ch, o) ==
    /\ mpc = (IF ch = "tg" THEN "os_tg" ELSE "os_wa")
    /\ oSent' = Append(oSent, [ch |-> ch, outcome |-> o])
    /\ mpc' = (IF ch = "tg" THEN "os_wa" ELSE "os_mark")
    /\ UNCHANGED << now, state, file, argv, conf, exitCode, loopsStarted, oIdx,
                    oLast, oEval, cliOther >>

\* lines 303-304: eng.mark_alert(key); log.  save_state may raise.
OneShotMark(ok) ==
    /\ mpc = "os_mark"
    /\ state' = [state EXCEPT !.last_alert =
                    Put(@, KeyOf(conf.monitors[oIdx].mid,
                                 conf.monitors[oIdx].zname), now)]
    /\ IF ok
       THEN file' = save_state(state') /\ OneShotNext
       ELSE UNCHANGED file /\ OneShotRaise
    /\ UNCHANGED << now, argv, conf, loopsStarted, oEval, cliOther >>

\* the for loops are exhausted: one_shot_check returns, main returns 0
OneShotDone ==
    /\ mpc = "os_pair"
    /\ oIdx > Len(conf.monitors)
    /\ CliExit(0)
    /\ UNCHANGED << now, state, file, argv, conf, loopsStarted, oIdx, oLast,
                    oSent, oEval, cliOther >>

NextCli ==
    \/ Tick
    \/ \E a \in Args : CliStart(a)
    \/ CliLoad
    \/ CliUsage
    \/ \E ok \in BOOLEAN : CliSimulate(ok)
    \/ \E ok \in BOOLEAN : CliBackdate(ok)
    \/ \E ok \in BOOLEAN : CliClear(ok)
    \/ CliCheck
    \/ CliDaemon
    \/ CliStop
    \/ OneShotRead
    \/ OneShotDecide
    \/ \E ch \in {"tg", "wa"}, o \in Outcomes : OneShotSend(ch, o)
    \/ \E ok \in BOOLEAN : OneShotMark(ok)
    \/ OneShotDone

SpecCli == InitCli /\ [][NextCli]_vars

(***************************************************************************)
(* Properties of the command line.                                         *)
(***************************************************************************)
\* a command line that is a usage error: too few arguments for its
\* subcommand, or a subcommand that is none of the four
UsageError(a) ==
    /\ Len(a) >= 2
    /\ \/ a[2] = "--simulate" /\ Len(a) < 4
       \/ a[2] = "--backdate" /\ Len(a) < 5
       \/ a[2] \notin Commands

\* C28: with the configuration in place, a process whose command line is a
\* usage error changes nothing in the state file, never starts the loops,
\* and once past the dispatch has exited with code 2; a process of one of
\* the four subcommands that returns normally exits with code 0, never 2.
C28_UsageErrorExitsTwo ==
    /\ [](UsageError(argv) /\ conf.exists /\ mpc \notin {"idle", "load", "dispatch"}
            => (mpc = "exit" /\ exitCode = 2 /\ ~loopsStarted))
    /\ [][(UsageError(argv) /\ mpc \in {"load", "dispatch"}) => file' = file]_vars
    /\ [](mpc = "exit" /\ Len(argv) >= 2 /\ ~UsageError(argv) => exitCode \in {0, 1})

\* the last_seen and last_alert maps a state file holds
SeenIn(f) ==
    IF "last_seen" \in DOMAIN load_state(f) THEN load_state(f).last_seen
    ELSE EmptyDict

AlertIn(f) ==
    IF "last_alert" \in DOMAIN load_state(f) THEN load_state(f).last_alert
    ELSE EmptyDict

\* the step sets last_seen[key] in the state file to t and nothing else
SetsOnly(key, t) ==
    /\ DOMAIN SeenIn(file') = DOMAIN SeenIn(file) \cup {key}
    /\ SeenIn(file')[key] = t
    /\ \A k \in DOMAIN SeenIn(file) \ {key} : SeenIn(file')[k] = SeenIn(file)[k]
    /\ AlertIn(file') = AlertIn(file)

\* the minutes an amount stands for
MinutesOf(s) == CASE s = "1m" -> 1 [] s = "2" -> 2 [] s = "1M" -> 1

\* a subcommand returns 0
Returns(cmd) ==
    /\ mpc = "dispatch" /\ mpc' = "exit" /\ exitCode' = 0
    /\ Len(argv) >= 2 /\ Arg(1) = cmd

\* C29: --simulate MID ZONE sets last_seen[MID:ZONE] to now, --backdate MID
\* ZONE N to now minus N minutes, each changing nothing else in either map;
\* --clear-state leaves both maps empty; --check evaluates every configured
\* pair at most once, all of them in order when it returns, and never
\* starts the loops; no other subcommand evaluates a pair.
C29_SubcommandEffects ==
    /\ [][Returns("--simulate") => SetsOnly(KeyOf(Arg(2), Arg(3)), now)]_vars
    /\ [][Returns("--backdate") =>
            SetsOnly(KeyOf(Arg(2), Arg(3)), now - MinutesOf(Arg(4)))]_vars
    /\ [][Returns("--clear-state") => load_state(file') = EmptyState]_vars
    /\ [](\A i \in 1..Len(oEval) : oEval[i] = i)
    /\ [](oEval # << >> => (Arg(1) = "--check" /\ ~loopsStarted))
    /\ [](mpc = "exit" /\ exitCode = 0 /\ Len(argv) >= 2 /\ Arg(1) = "--check"
            => Len(oEval) = Len(conf.monitors))

\* --check has returned after a pass over both pairs that recorded an alert
\* for a key set by --backdate, the other key set too
C29_Witness ==
    /\ mpc = "exit"
    /\ exitCode = 0
    /\ Len(argv) >= 2
    /\ Arg(1) = "--check"
    /\ oEval = << 1, 2 >>
    /\ DOMAIN SeenIn(file) = Keys
    /\ AlertIn(file) # EmptyDict

\* the configurations that are missing or structurally invalid
InvalidConfigs == {MissingConf, NegIdleConf, NegSupConf, EmptyConf}

\* C30: with a configuration that is missing or structurally invalid, no
\* process gets past loading it: it ends with an error, having touched no
\* state and started no loop.
C30_InvalidConfigRejected ==
    conf \in InvalidConfigs =>
        /\ mpc \in {"idle", "load", "exit"}
        /\ mpc = "exit" => exitCode = 1

\* the same order in one_shot_check as in check_loop: mark_alert is reached
\* only with both sends returned, telegram first
OneShotSendsThenMark ==
    /\ mpc = "os_mark" => (Len(oSent) = 2 /\ oSent[1].ch = "tg" /\ oSent[2].ch = "wa")
    /\ mpc = "os_wa" => (Len(oSent) = 1 /\ oSent[1].ch = "tg")
    /\ mpc \in {"os_pair", "os_decide", "os_tg"} => oSent = << >>

(***************************************************************************)
(* The dispatch of one alert after another: main of imouse_hook_alert.py   *)
(* (send_telegram, send_slack, send_whatsapp, each with its retry loop),   *)
(* or the two senders check_loop calls in rules_engine.py.  The clock      *)
(* counts minutes; the sleeps of the retry loops are in tenths of a        *)
(* second and do not move it.                                              *)
(***************************************************************************)
\* retries: int = 2
Retries == 2
\* backoff = 0.7, in tenths of a second
BackoffStart == 7
\* WA_COOLDOWN_SECONDS_DEFAULT = 120, in minutes
WA_COOLDOWN_SECONDS_DEFAULT == 2

\* one network attempt: delivered; answered with a status the sender logs
\* as an error; an exception (timeout, connection error, HTTPError)
AttemptOutcomes == {"ok", "status", "exc"}

\* the environments: every channel configured; two WhatsApp recipients;
\* Telegram credentials missing; the Slack webhook missing, or not a Slack
\* URL; WhatsApp not enabled; WhatsApp credentials missing
Envs ==
    { FullEnv,
      [FullEnv EXCEPT !.recipients = 2],
      [FullEnv EXCEPT !.tgCreds = FALSE],
      [FullEnv EXCEPT !.slack = "missing"],
      [FullEnv EXCEPT !.slack = "invalid"],
      [FullEnv EXCEPT !.waEnabled = FALSE],
      [FullEnv EXCEPT !.waCreds = FALSE] }

InitHook ==
    /\ now = StartTime
    /\ sup \in {0}
    /\ file = NoFile
    /\ tmp = NoFile
    /\ state = EmptyState
    /\ lock = "free"
    /\ wpc = "recv" /\ wQueue = << >> /\ wMid = ""
    /\ cpc = "sleep" /\ cIdx = 1 /\ cLast = 0 /\ cSent = NoSends
    /\ cSleep = 0
    /\ lastMark = [k \in Keys |-> 0]
    /\ passDisp = [k \in Keys |-> 0]
    /\ dirtyRead = FALSE
    /\ failRun = 0
    /\ spc = "off" /\ sNew = EmptyState /\ sOld = EmptyState
    /\ sPos = 0 /\ sLoaded = EmptyState
    /\ retMark = [k \in Keys |-> 0]
    /\ killMark = [k \in Keys |-> 0]
    /\ IngestIdle("off")
    /\ ForwarderIdle("off")
    /\ CliIdle("off") /\ conf = ValidConf
    /\ HookIdle("idle")
    /\ hProg \in {"hook", "engine"}
    /\ hEnv \in Envs
    /\ waFile = NoStamp
    /\ SaversOff

hookOther == << now, sup, state, file, tmp, lock, wsVars, chkVars, histVars,
                storeVars, bootVars, ingVars, fwdVars, cliVars, duoVars >>

\* an alert is handed to the dispatch: main of the hook reaches line 404,
\* check_loop reaches line 228
DispatchStart ==
    /\ hpc \in {"idle", "done"}
    /\ hpc' = "tg"
    /\ hAttempt' = 0
    /\ hBackoff' = BackoffStart
    /\ hRcpt' = 1
    /\ hSentAny' = FALSE
    /\ hWaits' = << >>
    /\ hTries' = NoTries
    /\ hResult' = NoResults
    /\ UNCHANGED << hProg, hEnv, waFile, hookOther >>

\* the sender called after a channel, with a failed channel ending the
\* dispatch
NextChannel_StopOnFailure(ch, res) ==
    IF res = "failed" THEN "done"
    ELSE CASE ch = "tg" -> (IF hProg = "hook" THEN "slack" ELSE "wa")
           [] ch = "slack" -> "wa"
           [] ch = "wa" -> "done"

\* the sender called after a channel: lines 404-406 of the hook, lines
\* 228-229 of rules_engine.py
NextChannel(ch, res) ==
    CASE ch = "tg" -> (IF hProg = "hook" THEN "slack" ELSE "wa")
      [] ch = "slack" -> "wa"
      [] ch = "wa" -> "done"

\* a sender returns: res is how the send ended
Finish(ch, res) ==
    /\ hResult' = [hResult EXCEPT ![ch] = res]
    /\ hpc' = NextChannel(ch, res)
    /\ hAttempt' = 0
    /\ hBackoff' = BackoffStart
    /\ hWaits' = << >>

\* a retry loop that gives up at the first exception
Attempt_Once(ch, o) ==
    /\ hTries' = [hTries EXCEPT ![ch] = @ + 1]
    /\ CASE o = "ok" -> Finish(ch, "ok")
         [] o = "status" -> Finish(ch, "rejected")
         [] o = "exc" -> Finish(ch, "failed")

\* one turn of for attempt in range(retries + 1), send_telegram and
\* send_slack of the hook: urlopen; a response ends the send; an exception
\* ends it when attempt >= retries, else time.sleep(backoff); backoff *= 2
Attempt(ch, o) ==
    /\ hTries' = [hTries EXCEPT ![ch] = @ + 1]
    /\ CASE o = "ok" -> Finish(ch, "ok")
         [] o = "status" -> Finish(ch, "rejected")
         [] o = "exc" ->
              IF hAttempt >= Retries
              THEN Finish(ch, "failed")
              ELSE /\ hWaits' = Append(hWaits, hBackoff)
                   /\ hBackoff' = hBackoff * 2
                   /\ hAttempt' = hAttempt + 1
                   /\ UNCHANGED << hpc, hResult >>

\* send_telegram of the hook
HookTelegram(o) ==
    /\ hProg = "hook"
    /\ hpc = "tg"
    /\ IF ~hEnv.tgCreds
       THEN Finish("tg", "nocreds") /\ UNCHANGED hTries
       ELSE Attempt("tg", o)
    /\ UNCHANGED << hProg, hEnv, hRcpt, hSentAny, waFile, hookOther >>

\* send_slack of the hook
HookSlack(o) ==
    /\ hProg = "hook"
    /\ hpc = "slack"
    /\ IF hEnv.slack # "ok"
       THEN Finish("slack", "nocreds") /\ UNCHANGED hTries
       ELSE Attempt("slack", o)
    /\ UNCHANGED << hProg, hEnv, hRcpt, hSentAny, waFile, hookOther >>

\* the cooldown test with the comparison turned round
wa_cooldown_ok_Reversed(f, t) ==
    IF ~f.exists THEN TRUE ELSE (t - f.last) < WA_COOLDOWN_SECONDS_DEFAULT

\* _wa_cooldown_ok(), evaluated at time t
wa_cooldown_ok(f, t) ==
    IF ~f.exists THEN TRUE ELSE (t - f.last) >= WA_COOLDOWN_SECONDS_DEFAULT

\* send_whatsapp of the hook, lines 287-311: not enabled, in cooldown, or
\* credentials missing: return; else the loop over the recipients
HookWaEnter ==
    /\ hProg = "hook"
    /\ hpc = "wa"
    /\ IF ~hEnv.waEnabled THEN Finish("wa", "skipped")
       ELSE IF ~wa_cooldown_ok(waFile, now) THEN Finish("wa", "cooldown")
       ELSE IF ~hEnv.waCreds THEN Finish("wa", "nocreds")
       ELSE /\ hpc' = "wa_send"
            /\ hAttempt' = 0
            /\ hBackoff' = BackoffStart
            /\ UNCHANGED << hWaits, hResult >>
    /\ hRcpt' = 1
    /\ hSentAny' = FALSE
    /\ UNCHANGED << hProg, hEnv, hTries, waFile, hookOther >>

\* the next recipient, or the end of the loop; backoff is not set again
WaNextRecipient ==
    /\ hAttempt' = 0
    /\ IF hRcpt < hEnv.recipients
       THEN hRcpt' = hRcpt + 1 /\ UNCHANGED hpc
       ELSE hpc' = "wa_end" /\ UNCHANGED hRcpt

\* one turn of for attempt in range(retries + 1) for the recipient, lines
\* 320-335
HookWaSend(o) ==
    /\ hProg = "hook"
    /\ hpc = "wa_send"
    /\ hTries' = [hTries EXCEPT !["wa"] = @ + 1]
    /\ CASE o = "ok" ->
              hSentAny' = TRUE /\ WaNextRecipient /\ UNCHANGED << hBackoff, hWaits >>
         [] o = "status" ->
              WaNextRecipient /\ UNCHANGED << hSentAny, hBackoff, hWaits >>
         [] o = "exc" ->
              IF hAttempt >= Retries
              THEN WaNextRecipient /\ UNCHANGED << hSentAny, hBackoff, hWaits >>
              ELSE /\ hWaits' = Append(hWaits, hBackoff)
                   /\ hBackoff' = hBackoff * 2
                   /\ hAttempt' = hAttempt + 1
                   /\ UNCHANGED << hpc, hRcpt, hSentAny >>
    /\ UNCHANGED << hProg, hEnv, hResult, waFile, hookOther >>

\* the timestamp written whether or not a recipient was reached
HookWaEnd_Always(ok) ==
    /\ hProg = "hook"
    /\ hpc = "wa_end"
    /\ waFile' = IF ok THEN [exists |-> TRUE, last |-> now] ELSE waFile
    /\ Finish("wa", IF hSentAny THEN "ok" ELSE "failed")
    /\ UNCHANGED << hProg, hEnv, hRcpt, hSentAny, hTries, hookOther >>

\* lines 337-338: if sent_any: _wa_mark_sent(), which swallows its errors
HookWaEnd(ok) ==
    /\ hProg = "hook"
    /\ hpc = "wa_end"
    /\ waFile' = IF hSentAny /\ ok THEN [exists |-> TRUE, last |-> now] ELSE waFile
    /\ Finish("wa", IF hSentAny THEN "ok" ELSE "failed")
    /\ UNCHANGED << hProg, hEnv, hRcpt, hSentAny, hTries, hookOther >>

\* send_telegram of rules_engine.py: one urlopen, no retry
EngineTelegram(o) ==
    /\ hProg = "engine"
    /\ hpc = "tg"
    /\ IF ~hEnv.tgCreds
       THEN Finish("tg", "nocreds") /\ UNCHANGED hTries
       ELSE Attempt_Once("tg", o)
    /\ UNCHANGED << hProg, hEnv, hRcpt, hSentAny, waFile, hookOther >>

\* send_whatsapp of rules_engine.py: not enabled: return; else one run of
\* whatsapp_call.py, which sends once
EngineWhatsapp(o) ==
    /\ hProg = "engine"
    /\ hpc = "wa"
    /\ IF ~hEnv.waEnabled
       THEN Finish("wa", "skipped") /\ UNCHANGED hTries
       ELSE Attempt_Once("wa", o)
    /\ UNCHANGED << hProg, hEnv, hRcpt, hSentAny, waFile, hookOther >>

NextHook ==
    \/ Tick
    \/ DispatchStart
    \/ \E o \in AttemptOutcomes : HookTelegram(o)
    \/ \E o \in AttemptOutcomes : HookSlack(o)
    \/ HookWaEnter
    \/ \E o \in AttemptOutcomes : HookWaSend(o)
    \/ \E ok \in BOOLEAN : HookWaEnd(ok)
    \/ \E o \in AttemptOutcomes : EngineTelegram(o)
    \/ \E o \in AttemptOutcomes : EngineWhatsapp(o)

SpecHook == InitHook /\ [][NextHook]_vars

(***************************************************************************)
(* Properties of the dispatch.                                             *)
(***************************************************************************)
\* the channel is one the program sends on for this alert: its settings are
\* present, it is switched on, and it is not held back by its cooldown
ChannelEnabled(ch) ==
    CASE ch = "tg" -> hEnv.tgCreds
      [] ch = "slack" -> hProg = "hook" /\ hEnv.slack = "ok"
      [] ch = "wa" ->
           IF hProg = "hook"
           THEN hEnv.waEnabled /\ hEnv.waCreds /\ hResult["wa"] # "cooldown"
           ELSE hEnv.waEnabled

\* C23: when the dispatch of an alert has ended, every enabled channel has
\* been attempted at least once, however the sends on the other channels
\* ended (delivered, rejected, failed after the retries, no credentials,
\* skipped): the failure of one channel never prevents the attempt on
\* another.
C23_EveryEnabledChannelAttempted ==
    hpc = "done" =>
        \A ch \in {"tg", "slack", "wa"} : ChannelEnabled(ch) => hTries[ch] >= 1

\* the hook has dispatched an alert whose Telegram and Slack sends failed on
\* every attempt and whose WhatsApp send was delivered
C23_Witness ==
    /\ hpc = "done"
    /\ hProg = "hook"
    /\ hResult["tg"] = "failed"
    /\ hResult["slack"] = "failed"
    /\ hResult["wa"] = "ok"
    /\ hTries["wa"] >= 1

\* C24: on Telegram and Slack, a send that ends because its attempts raised
\* has made exactly 3 attempts, having waited 0.7 s and then 1.4 s, and a
\* send that is delivered on attempt k has made exactly k attempts.
C24_ThreeAttemptsWithBackoff ==
    [][\A ch \in {"tg", "slack"} :
          /\ (hResult[ch] = "none" /\ hResult'[ch] = "failed") =>
                 /\ hTries'[ch] = Retries + 1
                 /\ hWaits = << BackoffStart, 2 * BackoffStart >>
          /\ (hResult[ch] = "none" /\ hResult'[ch] = "ok") =>
                 hTries'[ch] = Len(hWaits) + 1]_vars

\* the cooldown stamp records a send less than the cooldown ago
InCooldown ==
    waFile.exists /\ (now - waFile.last) < WA_COOLDOWN_SECONDS_DEFAULT

C26_StampOnlyAfterDelivery ==
    /\ [][waFile' # waFile =>
            /\ hpc = "wa_end"
            /\ hSentAny
            /\ hResult'["wa"] = "ok"
            /\ waFile' = [exists |-> TRUE, last |-> now]]_vars
    /\ [][(hResult["wa"] = "none"
              /\ hResult'["wa"] \in {"skipped", "cooldown", "nocreds", "failed"}) =>
            waFile' = waFile]_vars

\* a send to two recipients of which one failed on every attempt and the
\* other was delivered, with the stamp written
C26_Witness ==
    /\ hpc = "done"
    /\ hResult["wa"] = "ok"
    /\ hEnv.recipients = 2
    /\ hTries["wa"] >= Retries + 2
    /\ waFile.exists

\* C38: in send_whatsapp every recipient has its own retry schedule: the
\* attempts for a recipient never exceed 3, the wait before its first retry
\* is 0.7 s and the wait before its second is 1.4 s, whatever happened for
\* the recipients before it.
C38_RetrySchedulePerRecipient ==
    /\ [](hpc = "wa_send" => hAttempt <= Retries)
    /\ [][(hpc = "wa_send" /\ hAttempt' = hAttempt + 1) =>
            hWaits' = Append(hWaits, IF hAttempt = 0 THEN BackoffStart
                                     ELSE 2 * BackoffStart)]_vars

(***************************************************************************)
(* Two processes inside save_state at once, on the same state file: the    *)
(* daemon and a subcommand of the command line, or two engines.  Both use  *)
(* the one temporary path STATE_FILE + ".tmp".  A process that has the     *)
(* temporary file open keeps writing to that file at its own offset when   *)
(* another process empties it, renames it, or unlinks it.                  *)
(***************************************************************************)
\* the states the two processes save: clear_state's, and one with entries
DuoStates == {EmptyState, SampleState}

\* a byte no process wrote: the gap a write past the end of a file leaves
Hole == P("NUL")

\* the text of a file after tok is written at offset pos
WriteAt(text, pos, tok) ==
    [i \in 1..(IF Len(text) > pos THEN Len(text) ELSE pos + 1) |->
        IF i = pos + 1 THEN tok
        ELSE IF i <= Len(text) THEN text[i] ELSE Hole]

InitDuo ==
    /\ now = StartTime
    /\ sup \in {0}
    /\ file \in {NoFile, FileOf(SaveText(SampleState))}
    /\ tmp = NoFile
    /\ state = EmptyState
    /\ lock = "free"
    /\ wpc = "recv" /\ wQueue = << >> /\ wMid = ""
    /\ cpc = "sleep" /\ cIdx = 1 /\ cLast = 0 /\ cSent = NoSends
    /\ cSleep = 0
    /\ lastMark = [k \in Keys |-> 0]
    /\ passDisp = [k \in Keys |-> 0]
    /\ dirtyRead = FALSE
    /\ failRun = 0
    /\ spc = "off" /\ sNew = EmptyState /\ sOld = EmptyState
    /\ sPos = 0 /\ sLoaded = EmptyState
    /\ retMark = [k \in Keys |-> 0]
    /\ killMark = [k \in Keys |-> 0]
    /\ IngestIdle("off")
    /\ ForwarderIdle("off")
    /\ CliIdle("off") /\ conf = ValidConf
    /\ HookIdle("off") /\ hProg = "hook" /\ hEnv = FullEnv /\ waFile = NoStamp
    /\ savers \in [Procs -> [pc : {"open"}, st : DuoStates, pos : {0},
                             fd : {"none"}]]
    /\ lastReplace = 0
    /\ passA = NoPass /\ passB = NoPass
    /\ hooks = [p \in Procs |-> "off"]
    /\ waSends = {}

duoOther == << now, sup, state, lock, wsVars, chkVars, histVars, storeVars,
               bootVars, ingVars, fwdVars, cliVars, hookVars, passA, passB,
               hooks, waSends >>

\* with open(tmp, "w") as f: the temporary file is created, or the one that
\* is there is emptied, whoever else has it open
DuoOpen(p) ==
    /\ savers[p].pc = "open"
    /\ tmp' = FileOf(<< >>)
    /\ savers' = [savers EXCEPT ![p] = [@ EXCEPT !.pc = "write", !.pos = 0,
                                                 !.fd = "tmp"]]
    /\ UNCHANGED << file, lastReplace, duoOther >>

\* json.dump(state, f) writes the next piece of the text at the offset of
\* the process, into the file it has open
DuoWrite(p) ==
    /\ savers[p].pc = "write"
    /\ savers[p].pos < Len(SaveText(savers[p].st))
    /\ LET tok == SaveText(savers[p].st)[savers[p].pos + 1]
       IN /\ tmp' = IF savers[p].fd = "tmp"
                    THEN FileOf(WriteAt(tmp.text, savers[p].pos, tok))
                    ELSE tmp
          /\ file' = IF savers[p].fd = "file"
                     THEN FileOf(WriteAt(file.text, savers[p].pos, tok))
                     ELSE file
    /\ savers' = [savers EXCEPT ![p] = [@ EXCEPT !.pos = @ + 1]]
    /\ UNCHANGED << lastReplace, duoOther >>

\* the with block ends: the process closes its file
DuoClose(p) ==
    /\ savers[p].pc = "write"
    /\ savers[p].pos = Len(SaveText(savers[p].st))
    /\ savers' = [savers EXCEPT ![p] = [@ EXCEPT !.pc = "replace",
                                                 !.fd = "none"]]
    /\ UNCHANGED << file, tmp, lastReplace, duoOther >>

\* os.replace(tmp, STATE_FILE): the file at the temporary path takes the
\* place of the state file, still open in whoever was writing to it; with
\* no file at the temporary path, FileNotFoundError
DuoReplace(p) ==
    /\ savers[p].pc = "replace"
    /\ IF tmp.exists
       THEN /\ file' = tmp
            /\ tmp' = NoFile
            /\ lastReplace' = p
            /\ savers' = [q \in Procs |->
                            IF q = p THEN [savers[q] EXCEPT !.pc = "saved"]
                            ELSE IF savers[q].fd = "tmp"
                                 THEN [savers[q] EXCEPT !.fd = "file"]
                            ELSE IF savers[q].fd = "file"
                                 THEN [savers[q] EXCEPT !.fd = "gone"]
                            ELSE savers[q]]
       ELSE /\ savers' = [savers EXCEPT ![p] = [@ EXCEPT !.pc = "failed"]]
            /\ UNCHANGED << file, tmp, lastReplace >>
    /\ UNCHANGED duoOther

NextDuo ==
    \/ \E p \in Procs : DuoOpen(p)
    \/ \E p \in Procs : DuoWrite(p)
    \/ \E p \in Procs : DuoClose(p)
    \/ \E p \in Procs : DuoReplace(p)

SpecDuo == InitDuo /\ [][NextDuo]_vars

\* C32: when two processes save to the same state file, however their steps
\* interleave, neither save fails, and from the first replace on the state
\* file holds exactly the whole text written by the process whose replace
\* happened last.
C32_LastReplaceWins ==
    /\ \A p \in Procs : savers[p].pc # "failed"
    /\ lastReplace # 0 =>
          file = FileOf(SaveText(savers[lastReplace].st))

(***************************************************************************)
(* The key of a tracked zone.  Engine.note and Engine.mark_alert are       *)
(* applied to the pairs of a configuration whose monitor ids and zone      *)
(* names are any strings rules.yaml can hold, a colon included.            *)
(***************************************************************************)
\* the (monitor id, zone name) pairs a configuration is drawn from
KeyPairs == [mid : {"1", "1:2"}, zname : {"Litter", "2:Litter"}]

\* rules.yaml with two different pairs, in file order
KeyConfigs ==
    { c \in { [exists |-> TRUE, monitors |-> << a, b >>,
               suppress_minutes |-> 1] : a \in KeyPairs, b \in KeyPairs } :
          c.monitors[1] # c.monitors[2] }

\* key = f"{mid}:{zname}" for the i-th pair of the configuration
ConfKey(i) == KeyOf(conf.monitors[i].mid, conf.monitors[i].zname)

\* the keys of the configuration, each once, in file order
ConfKeySeq ==
    IF ConfKey(1) = ConfKey(2) THEN << ConfKey(1) >>
    ELSE << ConfKey(1), ConfKey(2) >>

\* json.dump(state, f) for a state over the keys of the configuration
KeyDump(st) ==
    << P("{"), S("last_seen"), P(":"), P("{") >>
        \o DumpNumMembers(st.last_seen, ConfKeySeq)
        \o << P("}"), P(","), S("last_alert"), P(":"), P("{") >>
        \o DumpNumMembers(st.last_alert, ConfKeySeq)
        \o << P("}"), P("}") >>

InitKey ==
    /\ now = StartTime
    /\ sup \in {0}
    /\ file = NoFile
    /\ tmp = NoFile
    /\ state = EmptyState
    /\ lock = "free"
    /\ wpc = "recv" /\ wQueue = << >> /\ wMid = ""
    /\ cpc = "sleep" /\ cIdx = 1 /\ cLast = 0 /\ cSent = NoSends
    /\ cSleep = 0
    /\ lastMark = [k \in Keys |-> 0]
    /\ passDisp = [k \in Keys |-> 0]
    /\ dirtyRead = FALSE
    /\ failRun = 0
    /\ spc = "off" /\ sNew = EmptyState /\ sOld = EmptyState
    /\ sPos = 0 /\ sLoaded = EmptyState
    /\ retMark = [k \in Keys |-> 0]
    /\ killMark = [k \in Keys |-> 0]
    /\ IngestIdle("off")
    /\ ForwarderIdle("off")
    /\ CliIdle("off") /\ conf \in KeyConfigs
    /\ HookIdle("off") /\ hProg = "hook" /\ hEnv = FullEnv /\ waFile = NoStamp
    /\ SaversOff

\* Engine.note(mid, zone) for the i-th pair: the key is set to the current
\* time and the state saved
KeyNote(i) ==
    /\ wMid' = conf.monitors[i].mid
    /\ wQueue' = << conf.monitors[i].zname >>
    /\ state' = [state EXCEPT !.last_seen = Put(@, ConfKey(i), now)]
    /\ file' = FileOf(KeyDump(state'))
    /\ UNCHANGED << now, sup, tmp, lock, wpc, chkVars, histVars, storeVars,
                    bootVars, ingVars, fwdVars, toolVars >>

\* Engine.mark_alert(key) for the i-th pair
KeyMark(i) ==
    /\ cIdx' = i
    /\ state' = [state EXCEPT !.last_alert = Put(@, ConfKey(i), now)]
    /\ file' = FileOf(KeyDump(state'))
    /\ UNCHANGED << now, sup, tmp, lock, wsVars, cpc, cLast, cSent, cSleep,
                    passDisp, histVars, storeVars, bootVars, ingVars, fwdVars,
                    toolVars >>

NextKey ==
    \/ Tick
    \/ \E i \in 1..2 : KeyNote(i)
    \/ \E i \in 1..2 : KeyMark(i)

SpecKey == InitKey /\ [][NextKey]_vars

\* C33: the keys of two different pairs of the configuration differ, so
\* that note for one pair leaves the last_seen of the other as it was, and
\* mark_alert for one pair leaves the last_alert of the other as it was.
C33_KeyInjective ==
    [][\A i \in 1..2 : \A j \in (1..2) \ {i} :
          /\ (/\ wMid' = conf.monitors[i].mid
              /\ wQueue' = << conf.monitors[i].zname >>
              /\ state'.last_seen # state.last_seen) =>
                  Get(state'.last_seen, ConfKey(j), 0)
                      = Get(state.last_seen, ConfKey(j), 0)
          /\ (cIdx' = i /\ state'.last_alert # state.last_alert) =>
                  Get(state'.last_alert, ConfKey(j), 0)
                      = Get(state.last_alert, ConfKey(j), 0)]_vars

(***************************************************************************)
(* One iteration of check_loop and one_shot_check, each run on its own     *)
(* from the same configuration and the same state file, pair by pair at    *)
(* the same times and with the same outcome of each save.  The sends       *)
(* return whatever their outcome and do not appear.                        *)
(***************************************************************************)
\* _topic_for_zone / the wording _alert_text picks for the zone name
ZoneKind(zname) ==
    IF zname = "Litter" THEN "litter"
    ELSE IF zname = "Water" THEN "drink"
    ELSE "generic"

\* _alert_text(mname, mid, zname, idle, threshold): what the text is made of
AlertText(pair, idle) ==
    [kind |-> ZoneKind(pair.zname), zname |-> pair.zname, mid |-> pair.mid,
     idle |-> idle, threshold |-> pair.max_inactive_minutes]

\* the timestamp maps a persisted state may hold
PassDicts == UNION {[ks -> {StartTime - 1, StartTime}] : ks \in SUBSET Keys}

\* the state file found: none, one holding {}, or a saved state
PassFiles ==
    {NoFile, FileOf(JsonDump(EmptyDict))}
        \cup {save_state([last_seen |-> a, last_alert |-> b]) :
                  a \in PassDicts, b \in PassDicts}

\* eng = Engine(cfg): the state is loaded from the state file
PassBegin(f) ==
    [st |-> load_state(f), file |-> f, idx |-> 1, sent |-> << >>, pc |-> "run"]

\* check_loop, lines 216-231, for the pair at r.idx, at time t, with the
\* save inside mark_alert succeeding or not: the except clause logs and
\* sleeps 5 s, the end of the loops sleeps 60 s
CheckLoopPair(r, cfg, t, ok) ==
    IF r.idx > Len(cfg.monitors) THEN [r EXCEPT !.pc = "sleep60"]
    ELSE LET pair == cfg.monitors[r.idx]
             key == KeyOf(pair.mid, pair.zname)
             next == [r EXCEPT !.idx = @ + 1]
             raise == [r EXCEPT !.pc = "sleep5"]
         IN IF "last_seen" \notin DOMAIN r.st THEN raise
            ELSE LET last == Get(r.st.last_seen, key, 0)
                 IN IF NotSeen(last) THEN next
                    ELSE IF ~IdleExceeded(last, pair.max_inactive_minutes, t)
                         THEN next
                    ELSE IF "last_alert" \notin DOMAIN r.st THEN raise
                    ELSE IF ~should_alert(r.st, key, cfg.suppress_minutes, t)
                         THEN next
                    ELSE LET marked == [r.st EXCEPT !.last_alert = Put(@, key, t)]
                             text == AlertText(pair, minutes_since(last, t))
                             sent == Append(r.sent, [key |-> key, text |-> text])
                         IN IF ok
                            THEN [next EXCEPT !.st = marked, !.sent = sent,
                                              !.file = save_state(marked)]
                            ELSE [raise EXCEPT !.st = marked, !.sent = sent]

\* one_shot_check that alerts without marking
OneShotPair_NoMark(r, cfg, t, ok) ==
    LET q == CheckLoopPair(r, cfg, t, ok)
    IN [q EXCEPT !.st = r.st, !.file = r.file,
                 !.pc = IF @ = "sleep60" THEN "exit0"
                        ELSE IF @ = "sleep5" THEN "exit1" ELSE @]

\* one_shot_check, lines 289-304, for the pair at r.idx: no exception is
\* caught, so one ends the process; the end of the loops returns
OneShotPair(r, cfg, t, ok) ==
    IF r.idx > Len(cfg.monitors) THEN [r EXCEPT !.pc = "exit0"]
    ELSE LET pair == cfg.monitors[r.idx]
             key == KeyOf(pair.mid, pair.zname)
         IN IF "last_seen" \notin DOMAIN r.st THEN [r EXCEPT !.pc = "exit1"]
            ELSE IF NotSeen(Get(r.st.last_seen, key, 0))
                 THEN [r EXCEPT !.idx = @ + 1]
            ELSE LET idle == minutes_since(r.st.last_seen[key], t)
                 IN IF idle > pair.max_inactive_minutes
                    THEN IF "last_alert" \notin DOMAIN r.st
                         THEN [r EXCEPT !.pc = "exit1"]
                         ELSE IF should_alert(r.st, key, cfg.suppress_minutes, t)
                              THEN LET eng == [r.st EXCEPT !.last_alert =
                                                              Put(@, key, t)]
                                       alert == [key |-> key,
                                                 text |-> AlertText(pair, idle)]
                                   IN [r EXCEPT
                                         !.sent = Append(@, alert),
                                         !.st = eng,
                                         !.file = IF ok THEN save_state(eng) ELSE @,
                                         !.idx = IF ok THEN @ + 1 ELSE @,
                                         !.pc = IF ok THEN @ ELSE "exit1"]
                              ELSE [r EXCEPT !.idx = @ + 1]
                    ELSE [r EXCEPT !.idx = @ + 1]

InitPass ==
    /\ now = StartTime
    /\ sup \in {0}
    /\ file \in PassFiles
    /\ tmp = NoFile
    /\ state = EmptyState
    /\ lock = "free"
    /\ wpc = "recv" /\ wQueue = << >> /\ wMid = ""
    /\ cpc = "sleep" /\ cIdx = 1 /\ cLast = 0 /\ cSent = NoSends
    /\ cSleep = 0
    /\ lastMark = [k \in Keys |-> 0]
    /\ passDisp = [k \in Keys |-> 0]
    /\ dirtyRead = FALSE
    /\ failRun = 0
    /\ spc = "off" /\ sNew = EmptyState /\ sOld = EmptyState
    /\ sPos = 0 /\ sLoaded = EmptyState
    /\ retMark = [k \in Keys |-> 0]
    /\ killMark = [k \in Keys |-> 0]
    /\ IngestIdle("off")
    /\ ForwarderIdle("off")
    /\ CliIdle("off") /\ conf \in Configs \ {MissingConf}
    /\ HookIdle("off") /\ hProg = "hook" /\ hEnv = FullEnv /\ waFile = NoStamp
    /\ savers = [p \in Procs |-> [pc |-> "off", st |-> EmptyState, pos |-> 0,
                                  fd |-> "none"]]
    /\ lastReplace = 0
    /\ passA = PassBegin(file) /\ passB = PassBegin(file)
    /\ hooks = [p \in Procs |-> "off"]
    /\ waSends = {}

passOther == << sup, state, file, tmp, lock, wsVars, chkVars, histVars,
                storeVars, bootVars, ingVars, fwdVars, cliVars, hookVars,
                savers, lastReplace, hooks, waSends >>

\* both passes take their next pair
PassStep(ok) ==
    /\ passA.pc = "run" \/ passB.pc = "run"
    /\ passA' = IF passA.pc = "run" THEN CheckLoopPair(passA, conf, now, ok)
                ELSE passA
    /\ passB' = IF passB.pc = "run" THEN OneShotPair(passB, conf, now, ok)
                ELSE passB
    /\ UNCHANGED << now, passOther >>

\* time passes between two pairs
PassTick ==
    /\ now < MaxTime
    /\ now' = now + 1
    /\ UNCHANGED << passA, passB, passOther >>

NextPass ==
    \/ PassTick
    \/ \E ok \in BOOLEAN : PassStep(ok)

SpecPass == InitPass /\ [][NextPass]_vars

\* C34: run from the same configuration and the same state file,
\* one_shot_check and one iteration of check_loop have sent alerts for the
\* same keys with the same texts, in the same order, and hold the same
\* state and the same state file, after every pair and when both have ended.
C34_OneShotEqualsIteration ==
    /\ passA.sent = passB.sent
    /\ passA.st = passB.st
    /\ passA.file = passB.file
    /\ passA.idx = passB.idx
    /\ (passA.pc = "run") = (passB.pc = "run")
    /\ (passA.pc = "sleep60") = (passB.pc = "exit0")

\* both have ended after an alert for each of the two zones
C34_Witness ==
    /\ passA.pc = "sleep60"
    /\ passB.pc = "exit0"
    /\ Len(passB.sent) = 2
    /\ DOMAIN passB.st = Names
    /\ DOMAIN passB.st.last_alert = Keys

(***************************************************************************)
(* Hook processes side by side.  run_hook of the forwarder stops waiting   *)
(* for a hook after 5 s without ending it, and starts the next hook for    *)
(* the next event, so two hooks can be inside send_whatsapp at once, with  *)
(* the one cooldown file between them.  WhatsApp is enabled and            *)
(* configured, with one recipient.                                         *)
(***************************************************************************)
InitWa ==
    /\ now = StartTime
    /\ sup \in {0}
    /\ file = NoFile
    /\ tmp = NoFile
    /\ state = EmptyState
    /\ lock = "free"
    /\ wpc = "recv" /\ wQueue = << >> /\ wMid = ""
    /\ cpc = "sleep" /\ cIdx = 1 /\ cLast = 0 /\ cSent = NoSends
    /\ cSleep = 0
    /\ lastMark = [k \in Keys |-> 0]
    /\ passDisp = [k \in Keys |-> 0]
    /\ dirtyRead = FALSE
    /\ failRun = 0
    /\ spc = "off" /\ sNew = EmptyState /\ sOld = EmptyState
    /\ sPos = 0 /\ sLoaded = EmptyState
    /\ retMark = [k \in Keys |-> 0]
    /\ killMark = [k \in Keys |-> 0]
    /\ IngestIdle("off")
    /\ ForwarderIdle("off")
    /\ CliIdle("off") /\ conf = ValidConf
    /\ HookIdle("off") /\ hProg = "hook" /\ hEnv = FullEnv /\ waFile = NoStamp
    /\ savers = [p \in Procs |-> [pc |-> "off", st |-> EmptyState, pos |-> 0,
                                  fd |-> "none"]]
    /\ lastReplace = 0
    /\ passA = NoPass /\ passB = NoPass
    /\ hooks = [p \in Procs |-> "idle"]
    /\ waSends = {}

waOther == << now, sup, state, file, tmp, lock, wsVars, chkVars, histVars,
              storeVars, bootVars, ingVars, fwdVars, cliVars, hpc, hProg, hEnv,
              hAttempt, hBackoff, hRcpt, hSentAny, hWaits, hTries, hResult,
              savers, lastReplace, passA, passB >>

\* run_hook starts a hook, which reaches send_whatsapp
WaStart(p) ==
    /\ hooks[p] \in {"idle", "done"}
    /\ hooks' = [hooks EXCEPT ![p] = "check"]
    /\ UNCHANGED << waFile, waSends, waOther >>

\* if not _wa_cooldown_ok(): return
WaCheck(p) ==
    /\ hooks[p] = "check"
    /\ hooks' = [hooks EXCEPT ![p] = IF wa_cooldown_ok(waFile, now)
                                     THEN "send" ELSE "done"]
    /\ UNCHANGED << waFile, waSends, waOther >>

\* the attempts for the recipient end: delivered, or given up
WaDeliver(p, ok) ==
    /\ hooks[p] = "send"
    /\ waSends' = IF ok THEN waSends \cup {[proc |-> p, at |-> now]}
                  ELSE waSends
    /\ hooks' = [hooks EXCEPT ![p] = IF ok THEN "mark" ELSE "done"]
    /\ UNCHANGED << waFile, waOther >>

\* if sent_any: _wa_mark_sent(), which swallows a failing write
WaMark(p, wrote) ==
    /\ hooks[p] = "mark"
    /\ waFile' = IF wrote THEN [exists |-> TRUE, last |-> now] ELSE waFile
    /\ hooks' = [hooks EXCEPT ![p] = "done"]
    /\ UNCHANGED << waSends, waOther >>

NextWa ==
    \/ Tick
    \/ \E p \in Procs : WaStart(p)
    \/ \E p \in Procs : WaCheck(p)
    \/ \E p \in Procs, ok \in BOOLEAN : WaDeliver(p, ok)
    \/ \E p \in Procs, wrote \in BOOLEAN : WaMark(p, wrote)

SpecWa == InitWa /\ [][NextWa]_vars

\* C36: any two WhatsApp sends that delivered, by the same hook process or
\* by two, lie at least the cooldown apart.
C36_SendsCooldownApart ==
    \A a \in waSends : \A b \in waSends \ {a} :
        \/ a.at - b.at >= WA_COOLDOWN_SECONDS_DEFAULT
        \/ b.at - a.at >= WA_COOLDOWN_SECONDS_DEFAULT

====
